---------------------------- MODULE Spec2Model ----------------------------
(***************************************************************************)
(* A model of ShapeMeshes (artifact-two/enhanced/3DShapes/ShapeMeshes.cpp  *)
(* and ShapeMeshes.h): the primitive mesh generators, the GLMesh handles   *)
(* they fill, and the draw operations that address the uploaded buffers.   *)
(*                                                                         *)
(* Conventions of the model                                                *)
(*  - A vertex is one record (position, normal, texCoord); the flat float  *)
(*    buffer of the code holds FloatsPerVertex + FloatsPerNormal +         *)
(*    FloatsPerUV floats for each record, in the same order.               *)
(*  - Index buffers are sequences of naturals, in the order of push_back.  *)
(*    TLA+ sequences are 1-based: the code's indices[k] is idx[k + 1].     *)
(*  - Real quantities are kept as the expressions the code evaluates:      *)
(*    Frac(k, n) is the quotient k / n of the code (an angle k * step with *)
(*    step = turn / n, or a texture coordinate float(k) / n).  A zero      *)
(*    denominator is the non-finite value of the float division.          *)
(*  - The GL server is two name spaces: vertex array objects (with the     *)
(*    element buffer and the attribute source they record) and buffer      *)
(*    objects (with their data store).  glGen* returns the smallest        *)
(*    unused name of its name space; name 0 is never an object.            *)
(***************************************************************************)
EXTENDS Integers, Sequences, FiniteSets, TLC

(***************************************************************************)
(* Bounds of the model (inputs explored by TLC).                           *)
(***************************************************************************)
\* largest segment / slice count passed to a generator
MaxSeg == 4
\* float parameters (radius, height, ...) range over 1..MaxScalar
MaxScalar == 2
\* number of Load operations in one behaviour of Spec
MaxLoads == 2
\* number of different deprecated wrappers called in one behaviour of SpecLines
MaxWarned == 2

(***************************************************************************)
(* Program constants.                                                      *)
(***************************************************************************)
FloatsPerVertex == 3
FloatsPerNormal == 3
FloatsPerUV == 2
\* "if (numSlices < 3) numSlices = 3;"
MinSlices == 3
\* DrawBoxMeshSide: constexpr int indicesPerFace = 6
indicesPerFace == 6
\* DrawSpiralMesh: int capRings = 8
capRings == 8
\* LoadSpringMesh: tubeSegments = std::max(8, tubeSegments)
SpringMinTube == 8

FloatsPerRecord == FloatsPerVertex + FloatsPerNormal + FloatsPerUV

VARIABLES
    meshes,               \* the GLMesh members m_<Shape>Mesh, by shape name
    glVertexArrays,       \* GL server: live VAO name -> recorded bindings
    glBuffers,            \* GL server: live buffer name -> data store
    m_bMemoryLayoutDone,  \* guard flag of the attribute-layout binding
    layoutCalls,          \* executions of SetShaderMemoryLayout so far
    polygonMode,          \* GL polygon mode: "FILL" or "LINE"
    drawCalls,            \* draw calls issued by the last operation
    errorSignalled,       \* the last operation wrote an error to std::cerr
    gen,                  \* host-side buffers built by the last generator
    lastOp,               \* the operation executed last, with its arguments
    nLoads,               \* Load operations executed so far
    running,              \* FALSE once a memory fault has ended the process
    warned,               \* the <shape>Warned flags, by wrapper name
    warnings,             \* deprecation warnings written to std::cerr so far
    lastWrapper           \* the deprecated wrapper the last operation was
                          \* called through ("none": called directly)

vars == <<meshes, glVertexArrays, glBuffers, m_bMemoryLayoutDone, layoutCalls,
          polygonMode,          drawCalls, errorSignalled, gen, lastOp, nLoads,
          running, warned, warnings, lastWrapper>>

(***************************************************************************)
(* Generic helpers.                                                        *)
(***************************************************************************)
Max(a, b) == IF a >= b THEN a ELSE b

\* C++ integer division truncates toward zero
CDiv(a, b) == IF a >= 0 THEN a \div b ELSE 0 - ((0 - a) \div b)

\* the quotient k / n as the code evaluates it in floating point
Frac(k, n) == <<k, n>>

(***************************************************************************)
(* IEEE-754 binary32 arithmetic, for the comparisons of the code whose     *)
(* outcome depends on rounding.  A float is <<m, e>> with the value        *)
(* m * 2^e, where m = 0 or 2^23 <= |m| < 2^24; every operation rounds to   *)
(* nearest, ties to even.  Exponent overflow, subnormals, infinities and   *)
(* NaN do not occur for the values computed here; callers treat a zero     *)
(* divisor themselves.                                                     *)
(***************************************************************************)
F32Abs(x) == IF x < 0 THEN 0 - x ELSE x
F32Sign(x) == IF x < 0 THEN -1 ELSE IF x > 0 THEN 1 ELSE 0

\* <<m, e>> shifted left by k bits if |m| < 2^below
F32Shift(x, below, k) ==
    IF F32Abs(x[1]) < 2^below THEN <<x[1] * 2^k, x[2] - k>> ELSE x

\* the float of an integer m * 2^e with |m| < 2^24 (exact): m is shifted
\* left until 2^23 <= |m|
F32Norm(m, e) ==
    IF m = 0 THEN <<0, 0>>
    ELSE F32Shift(F32Shift(F32Shift(F32Shift(F32Shift(<<m, e>>, 12, 12),
                                             18, 6), 21, 3), 22, 2), 23, 1)

\* static_cast<float>(i) and float(i) of a small int
F32FromInt(i) == F32Norm(i, 0)

\* n + f rounded to nearest even, where cmp is the sign of f - 1/2; the
\* mantissa 2^24 is renormalised
F32Round(sign, n, cmp, e) ==
    LET r == IF cmp > 0 \/ (cmp = 0 /\ n % 2 = 1) THEN n + 1 ELSE n
    IN IF r = 16777216 THEN <<sign * 8388608, e + 1>> ELSE <<sign * r, e>>

\* a * b
F32Mul(a, b) ==
    IF a[1] = 0 \/ b[1] = 0 THEN <<0, 0>>
    ELSE LET x == F32Abs(a[1])
             y == F32Abs(b[1])
             x1 == x \div 4096
             x0 == x % 4096
             y1 == y \div 4096
             y0 == y % 4096
             mid == x1 * y0 + x0 * y1
             low == x0 * y0 + (mid % 4096) * 4096
             lo == low % 16777216
             hi == x1 * y1 + (mid \div 4096) + (low \div 16777216)
             sign == F32Sign(a[1]) * F32Sign(b[1])
         IN \* x * y = hi * 2^24 + lo, a number of 47 or 48 bits
            IF hi >= 8388608
            THEN F32Round(sign, hi, F32Sign(lo - 8388608), a[2] + b[2] + 24)
            ELSE F32Round(sign, 2 * hi + (lo \div 8388608),
                          F32Sign((lo % 8388608) - 4194304), a[2] + b[2] + 23)

\* bits more quotient bits of r / y, r < y: <<quotient, remainder>>
RECURSIVE F32LongDiv(_, _, _, _)
F32LongDiv(acc, r, y, bits) ==
    IF bits = 0 THEN <<acc, r>>
    ELSE IF 2 * r >= y THEN F32LongDiv(2 * acc + 1, 2 * r - y, y, bits - 1)
    ELSE F32LongDiv(2 * acc, 2 * r, y, bits - 1)

\* a / b, b not zero
F32Div(a, b) ==
    IF a[1] = 0 THEN <<0, 0>>
    ELSE LET x == F32Abs(a[1])
             y == F32Abs(b[1])
             sign == F32Sign(a[1]) * F32Sign(b[1])
             q == IF x >= y THEN F32LongDiv(1, x - y, y, 23)
                            ELSE F32LongDiv(0, x, y, 24)
             e == IF x >= y THEN a[2] - b[2] - 23 ELSE a[2] - b[2] - 24
         IN F32Round(sign, q[1], F32Sign(2 * q[2] - y), e)

\* a > b
F32Greater(a, b) ==
    IF F32Sign(a[1]) # F32Sign(b[1]) THEN F32Sign(a[1]) > F32Sign(b[1])
    ELSE IF a[1] = 0 THEN FALSE
    ELSE IF a[1] > 0 THEN a[2] > b[2] \/ (a[2] = b[2] /\ a[1] > b[1])
    ELSE a[2] < b[2] \/ (a[2] = b[2] /\ a[1] > b[1])

\* static_cast<int>(a): the fraction is discarded (|a| < 2^31)
F32ToInt(a) ==
    IF a[2] >= 0 THEN a[1] * 2^a[2]
    ELSE IF a[2] <= -24 THEN 0
    ELSE F32Sign(a[1]) * (F32Abs(a[1]) \div 2^(0 - a[2]))

\* the float nearest to the rational <<p, q>>, q > 0: the value a caller
\* passes when it writes p / q as a float literal
F32FromRational(r) == F32Div(F32FromInt(r[1]), F32FromInt(r[2]))

\* const float PI = 3.14159265f  (0x40490FDB)
F32Pi == <<13176795, -22>>

RECURSIVE Flatten(_)
Flatten(ss) == IF ss = <<>> THEN <<>> ELSE Head(ss) \o Flatten(Tail(ss))

\* the sequence e(0), e(1), ..., e(n-1) of a for-loop over i in [0, n)
Loop(n, e(_)) == [k \in 1..Max(n, 0) |-> e(k - 1)]

\* a loop whose body appends a block (a sequence) in every iteration
LoopBlocks(n, e(_)) == Flatten(Loop(n, e))

Vertex(p, n, t) == [position |-> p, normal |-> n, texCoord |-> t]

Tri(a, b, c) == <<a, b, c>>

(***************************************************************************)
(* Symbolic values of the vertex attributes.                               *)
(***************************************************************************)
\* the point (r * cos(a), y, r * sin(a))
Polar(r, a, y) == <<"polar", r, a, y>>
\* the cap texture coordinate (0.5 + 0.5 * cos(a), 0.5 + 0.5 * sin(a))
CapUV(a) == <<"capuv", a>>
\* glm::normalize of the vector v (kept as the expression)
Normalize(v) == <<"normalize", v>>
Half == Frac(1, 2)

\* "if (numSlices < 3) numSlices = 3;"
ClampSlices_NoClamp(numSlices) == numSlices
ClampSlices(numSlices) == IF numSlices < MinSlices THEN MinSlices ELSE numSlices

(***************************************************************************)
(* LoadBoxMesh: 24 explicit vertices and 36 indices.  Positions are in     *)
(* units of 0.5.  The faces are emitted in the order back, bottom, left,   *)
(* right, top, front.                                                      *)
(***************************************************************************)
BoxFaceOrder == <<"back", "bottom", "left", "right", "top", "front">>

BoxFaceNormal(face) ==
    CASE face = "back"   -> <<0, 0, -1>>
      [] face = "bottom" -> <<0, -1, 0>>
      [] face = "left"   -> <<-1, 0, 0>>
      [] face = "right"  -> <<1, 0, 0>>
      [] face = "top"    -> <<0, 1, 0>>
      [] face = "front"  -> <<0, 0, 1>>

BoxFacePositions(face) ==
    CASE face = "back"   -> << <<1, 1, -1>>, <<1, -1, -1>>, <<-1, -1, -1>>, <<-1, 1, -1>> >>
      [] face = "bottom" -> << <<-1, -1, 1>>, <<-1, -1, -1>>, <<1, -1, -1>>, <<1, -1, 1>> >>
      [] face = "left"   -> << <<-1, 1, -1>>, <<-1, -1, -1>>, <<-1, -1, 1>>, <<-1, 1, 1>> >>
      [] face = "right"  -> << <<1, 1, 1>>, <<1, -1, 1>>, <<1, -1, -1>>, <<1, 1, -1>> >>
      [] face = "top"    -> << <<-1, 1, -1>>, <<-1, 1, 1>>, <<1, 1, 1>>, <<1, 1, -1>> >>
      [] face = "front"  -> << <<-1, 1, 1>>, <<-1, -1, 1>>, <<1, -1, 1>>, <<1, 1, 1>> >>

BoxFaceUVs == << <<0, 1>>, <<0, 0>>, <<1, 0>>, <<1, 1>> >>

BoxVerts ==
    LoopBlocks(Len(BoxFaceOrder), LAMBDA f :
        Loop(4, LAMBDA k :
            Vertex(BoxFacePositions(BoxFaceOrder[f + 1])[k + 1],
                   BoxFaceNormal(BoxFaceOrder[f + 1]),
                   BoxFaceUVs[k + 1])))

\* an index list that closes each face's second triangle on the next face
BoxIndices_AcrossFaces ==
    << 0, 1, 2, 2, 3, 4,
       4, 5, 6, 6, 7, 8,
       8, 9, 10, 10, 11, 12,
       12, 13, 14, 14, 15, 16,
       16, 17, 18, 18, 19, 20,
       20, 21, 22, 22, 23, 0 >>

BoxIndices ==
    << 0, 1, 2, 2, 3, 0,
       4, 5, 6, 6, 7, 4,
       8, 9, 10, 10, 11, 8,
       12, 13, 14, 14, 15, 12,
       16, 17, 18, 18, 19, 16,
       20, 21, 22, 22, 23, 20 >>

BoxGeometry == [verts |-> BoxVerts, indices |-> BoxIndices]

(***************************************************************************)
(* LoadConeMesh: bottom fan (centre + rim without a duplicate), apex, and  *)
(* two side vertices per slice.                                            *)
(***************************************************************************)
ConeRim_WithDuplicate(radius, numSlices) ==
    Loop(numSlices + 1, LAMBDA i :
        Vertex(Polar(radius, Frac(i, numSlices), 0), <<0, -1, 0>>,
               CapUV(Frac(i, numSlices))))

ConeRim(radius, numSlices) ==
    Loop(numSlices, LAMBDA i :
        Vertex(Polar(radius, Frac(i, numSlices), 0), <<0, -1, 0>>,
               CapUV(Frac(i, numSlices))))

ConeBottomIndices(bottomCenterIndex, numSlices) ==
    LoopBlocks(numSlices, LAMBDA i :
        Tri(bottomCenterIndex,
            bottomCenterIndex + ((i + 1) % numSlices) + 1,
            bottomCenterIndex + i + 1))

\* normalize((p0.x + p1.x) / 2, height / 2, (p0.z + p1.z) / 2)
ConeSideNormal(radius, height, a0, a1) ==
    Normalize(<<"avg", Polar(radius, a0, 0), Polar(radius, a1, 0), height>>)

ConeSideVerts(radius, height, numSlices) ==
    LoopBlocks(numSlices, LAMBDA i :
        LET a0 == Frac(i, numSlices)
            a1 == Frac(i + 1, numSlices)
            normal == ConeSideNormal(radius, height, a0, a1)
        IN << Vertex(Polar(radius, a0, 0), normal, <<Frac(i, numSlices), 1>>),
              Vertex(Polar(radius, a1, 0), normal, <<Frac(i + 1, numSlices), 1>>) >>)

ConeSideIndices(apexIndex, sideStart, numSlices) ==
    LoopBlocks(numSlices, LAMBDA i :
        Tri(apexIndex, sideStart + 2 * i, sideStart + 2 * i + 1))

ConeGeometry(radius, height, numSlicesArg) ==
    LET numSlices == ClampSlices(numSlicesArg)
        bottomCenterIndex == 0
        center == << Vertex(<<0, 0, 0>>, <<0, -1, 0>>, <<Half, Half>>) >>
        bottom == center \o ConeRim(radius, numSlices)
        apexIndex == (Len(bottom) * FloatsPerRecord) \div 8
        apex == << Vertex(<<0, height, 0>>, <<0, 1, 0>>, <<Half, Half>>) >>
        sideStart == apexIndex + 1
    IN [verts |-> bottom \o apex \o ConeSideVerts(radius, height, numSlices),
        indices |-> ConeBottomIndices(bottomCenterIndex, numSlices)
                    \o ConeSideIndices(apexIndex, sideStart, numSlices),
        numSlices |-> numSlices]

(***************************************************************************)
(* LoadCylinderMesh: bottom cap, top cap and side wall, every ring with    *)
(* numSlices + 1 vertices.                                                 *)
(***************************************************************************)
CylinderCapVerts(radius, y, ny, numSlices) ==
    << Vertex(<<0, y, 0>>, <<0, ny, 0>>, <<Half, Half>>) >>
    \o Loop(numSlices + 1, LAMBDA i :
        Vertex(Polar(radius, Frac(i, numSlices), y), <<0, ny, 0>>,
               CapUV(Frac(i, numSlices))))

CylinderCapIndices(centerIndex, numSlices) ==
    LoopBlocks(numSlices, LAMBDA i :
        Tri(centerIndex,
            centerIndex + i + 1,
            centerIndex + ((i + 1) % numSlices) + 1))

CylinderSideVerts(radius, height, numSlices) ==
    LoopBlocks(numSlices + 1, LAMBDA i :
        LET a == Frac(i, numSlices)
        IN << Vertex(Polar(radius, a, 0), Polar(1, a, 0), <<Frac(i, numSlices), 1>>),
              Vertex(Polar(radius, a, height), Polar(1, a, 0), <<Frac(i, numSlices), 0>>) >>)

CylinderSideIndices(sideStartIndex, numSlices) ==
    LoopBlocks(numSlices, LAMBDA i :
        Tri(sideStartIndex + (i * 2),
            sideStartIndex + (i * 2) + 1,
            sideStartIndex + ((i + 1) * 2))
        \o Tri(sideStartIndex + (i * 2) + 1,
               sideStartIndex + ((i + 1) * 2),
               sideStartIndex + ((i + 1) * 2) + 1))

CylinderGeometry(radius, height, numSlicesArg) ==
    LET numSlices == ClampSlices(numSlicesArg)
        bottomCenterIndex == 0
        bottom == CylinderCapVerts(radius, 0, -1, numSlices)
        topCenterIndex == (Len(bottom) * FloatsPerRecord) \div 8
        top == CylinderCapVerts(radius, height, 1, numSlices)
        sideStartIndex == (Len(bottom \o top) * FloatsPerRecord) \div 8
    IN [verts |-> bottom \o top \o CylinderSideVerts(radius, height, numSlices),
        indices |-> CylinderCapIndices(bottomCenterIndex, numSlices)
                    \o CylinderCapIndices(topCenterIndex, numSlices)
                    \o CylinderSideIndices(sideStartIndex, numSlices),
        numSlices |-> numSlices]

(***************************************************************************)
(* LoadTaperedCylinderMesh: caps and side rings of numSlices vertices,     *)
(* closed by index wrap-around.                                            *)
(***************************************************************************)
TaperedCapVerts(radius, y, ny, numSlices) ==
    << Vertex(<<0, y, 0>>, <<0, ny, 0>>, <<Half, Half>>) >>
    \o Loop(numSlices, LAMBDA i :
        Vertex(Polar(radius, Frac(i, numSlices), y), <<0, ny, 0>>,
               CapUV(Frac(i, numSlices))))

TaperedBottomIndices(bottomCenterIndex, numSlices) ==
    LoopBlocks(numSlices, LAMBDA i :
        Tri(bottomCenterIndex,
            bottomCenterIndex + 1 + i,
            bottomCenterIndex + 1 + ((i + 1) % numSlices)))

TaperedTopIndices(topCenterIndex, numSlices) ==
    LoopBlocks(numSlices, LAMBDA i :
        Tri(topCenterIndex,
            topCenterIndex + 1 + ((i + 1) % numSlices),
            topCenterIndex + 1 + i))

\* normalize(cos(a), (bottomRadius - topRadius) / height, sin(a))
TaperedSideNormal(bottomRadius, topRadius, height, a) ==
    Normalize(<<"slope", a, bottomRadius - topRadius, height>>)

TaperedSideVerts(bottomRadius, topRadius, height, numSlices) ==
    LoopBlocks(numSlices, LAMBDA i :
        LET a == Frac(i, numSlices)
            n == TaperedSideNormal(bottomRadius, topRadius, height, a)
        IN << Vertex(Polar(bottomRadius, a, 0), n, <<Frac(i, numSlices), 1>>),
              Vertex(Polar(topRadius, a, height), n, <<Frac(i, numSlices), 0>>) >>)

TaperedSideIndices(sideStartIndex, numSlices) ==
    LoopBlocks(numSlices, LAMBDA i :
        LET iNext == (i + 1) % numSlices
            B == sideStartIndex + 2 * i
            T == B + 1
            Bn == sideStartIndex + 2 * iNext
            Tn == Bn + 1
        IN Tri(B, Bn, T) \o Tri(T, Bn, Tn))

TaperedCylinderGeometry(bottomRadius, topRadius, height, numSlicesArg) ==
    LET numSlices == ClampSlices(numSlicesArg)
        bottomCenterIndex == 0
        bottom == TaperedCapVerts(bottomRadius, 0, -1, numSlices)
        topCenterIndex == (Len(bottom) * FloatsPerRecord) \div 8
        top == TaperedCapVerts(topRadius, height, 1, numSlices)
        sideStartIndex == (Len(bottom \o top) * FloatsPerRecord) \div 8
    IN [verts |-> bottom \o top
                  \o TaperedSideVerts(bottomRadius, topRadius, height, numSlices),
        indices |-> TaperedBottomIndices(bottomCenterIndex, numSlices)
                    \o TaperedTopIndices(topCenterIndex, numSlices)
                    \o TaperedSideIndices(sideStartIndex, numSlices),
        numSlices |-> numSlices]

(***************************************************************************)
(* The GLMesh handles and the GL server.                                   *)
(***************************************************************************)
Shapes ==
    {"box", "cone", "cylinder", "plane", "prism", "pyramid3", "pyramid4",
     "sphere", "hemisphere", "taperedCylinder", "torus", "extraTorus1",
     "extraTorus2", "spring", "tube", "fin", "curvedCone", "taperedTorus",
     "spiral", "sineCone", "superellipsoid"}

\* struct GLMesh with its default member initialisers.  vbos[2] has none: its
\* elements are written by LoadExtraTorusMesh1 / 2 (vbos[0], here vbos[1]) and
\* read by no operation before that; they are shown as 0 until then.
GLMesh ==
    [vao |-> 0, vbo |-> 0, vbos |-> <<0, 0>>, ebo |-> 0, nVertices |-> 0,
     nIndices |-> 0, numSlices |-> 0]

\* gen.geo is the record a generator returns: verts, indices and the
\* effective (clamped) counts it computed with
NoGen == [shape |-> "none", args |-> <<>>, geo |-> [verts |-> <<>>, indices |-> <<>>]]
NoOp == [kind |-> "none", name |-> "none", shape |-> "none", args |-> <<>>]

\* glGen*: the smallest name not in use
Fresh(used) ==
    CHOOSE n \in 1..(Cardinality(used) + 1) :
        n \notin used /\ \A m \in 1..(n - 1) : m \in used

\* SetWireframeMode: glPolygonMode(GL_FRONT_AND_BACK, wireframe ? GL_LINE : GL_FILL)
SetWireframeMode(wireframe) == IF wireframe THEN "LINE" ELSE "FILL"

\* one glDrawElements / glDrawArrays call; first and count are in elements
\* (the byte offset of the code divided by sizeof(GLuint))
DrawElements(prim, vao, count, first, mode) ==
    [prim |-> prim, indexed |-> TRUE, vao |-> vao, count |-> count,
     first |-> first, polygon |-> mode]

DrawArrays(prim, vao, count, first, mode) ==
    [prim |-> prim, indexed |-> FALSE, vao |-> vao, count |-> count,
     first |-> first, polygon |-> mode]

\* the element buffer a draw call on vertex array vao reads (0: none)
ElementBufferOf(vao) ==
    IF vao \in DOMAIN glVertexArrays THEN glVertexArrays[vao].elementBuffer ELSE 0

\* the indices an indexed draw call fetches from the bound element buffer
DrawnIndices(call) ==
    LET ebo == ElementBufferOf(call.vao)
        data == IF ebo \in DOMAIN glBuffers THEN glBuffers[ebo] ELSE <<>>
    IN [k \in 1..call.count |->
            IF call.first + k <= Len(data) THEN data[call.first + k] ELSE -1]

\* the deprecated Draw<Shape>MeshLines wrappers, one warning flag each
Wrappers ==
    {"DrawBoxMeshLines", "DrawConeMeshLines", "DrawCylinderMeshLines",
     "DrawPlaneMeshLines", "DrawPrismMeshLines", "DrawPyramid3MeshLines",
     "DrawPyramid4MeshLines", "DrawSphereMeshLines", "DrawHalfSphereMeshLines",
     "DrawTaperedCylinderMeshLines", "DrawTorusMeshLines", "DrawHalfTorusMeshLines"}

Init ==
    /\ meshes = [s \in Shapes |-> GLMesh]
    /\ glVertexArrays = <<>>
    /\ glBuffers = <<>>
    /\ m_bMemoryLayoutDone = FALSE
    /\ layoutCalls = 0
    /\ polygonMode = "FILL"
    /\ drawCalls = <<>>
    /\ errorSignalled = FALSE
    /\ gen = NoGen
    /\ lastOp = NoOp
    /\ nLoads = 0
    /\ running = TRUE
    /\ warned = [w \in Wrappers |-> FALSE]
    /\ warnings = <<>>
    /\ lastWrapper = "none"

(***************************************************************************)
(* InitializeMesh(mesh, verts, indices): base is the GLMesh as the caller  *)
(* left it.  SetShaderMemoryLayout sets the attribute pointers of the      *)
(* bound vertex array and leaves m_bMemoryLayoutDone as it is.             *)
(***************************************************************************)
InitializeMesh(shape, base, verts, indices) ==
    LET vao == Fresh(DOMAIN glVertexArrays)
        vbo == Fresh(DOMAIN glBuffers)
        hasIndices == Len(indices) > 0
        ebo == Fresh(DOMAIN glBuffers \cup {vbo})
        doLayout == ~m_bMemoryLayoutDone
    IN /\ meshes' = [meshes EXCEPT ![shape] =
                        [base EXCEPT
                            !.nVertices = (Len(verts) * FloatsPerRecord)
                                          \div (FloatsPerVertex + FloatsPerNormal + FloatsPerUV),
                            !.nIndices = Len(indices),
                            !.vao = vao,
                            !.vbo = vbo,
                            !.ebo = IF hasIndices THEN ebo ELSE @]]
       /\ glBuffers' = IF hasIndices
                       THEN (vbo :> verts) @@ (ebo :> indices) @@ glBuffers
                       ELSE (vbo :> verts) @@ glBuffers
       /\ glVertexArrays' =
              (vao :> [elementBuffer |-> IF hasIndices THEN ebo ELSE 0,
                       arrayBuffer |-> IF doLayout THEN vbo ELSE 0]) @@ glVertexArrays
       /\ layoutCalls' = IF doLayout THEN layoutCalls + 1 ELSE layoutCalls
       /\ UNCHANGED m_bMemoryLayoutDone

\* what every Load operation leaves besides the mesh
Loaded(shape, name, args, g) ==
    /\ running
    /\ nLoads < MaxLoads
    /\ nLoads' = nLoads + 1
    /\ UNCHANGED running
    /\ gen' = [shape |-> shape, args |-> args, geo |-> g]
    /\ lastOp' = [kind |-> "load", name |-> name, shape |-> shape, args |-> args]
    /\ drawCalls' = <<>>
    /\ errorSignalled' = FALSE
    /\ UNCHANGED polygonMode

LoadBoxMesh ==
    /\ InitializeMesh("box",
           [meshes["box"] EXCEPT
               !.nVertices = (Len(BoxVerts) * FloatsPerRecord)
                             \div (FloatsPerVertex + FloatsPerNormal + FloatsPerUV),
               !.nIndices = Len(BoxIndices)],
           BoxVerts, BoxIndices)
    /\ Loaded("box", "LoadBoxMesh", <<>>, BoxGeometry)

LoadConeMesh(radius, height, numSlices) ==
    LET g == ConeGeometry(radius, height, numSlices)
    IN /\ InitializeMesh("cone", [meshes["cone"] EXCEPT !.numSlices = g.numSlices],
                         g.verts, g.indices)
       /\ Loaded("cone", "LoadConeMesh",
                 [radius |-> radius, height |-> height, numSlices |-> numSlices], g)

LoadCylinderMesh(radius, height, numSlices) ==
    LET g == CylinderGeometry(radius, height, numSlices)
    IN /\ InitializeMesh("cylinder",
                         [meshes["cylinder"] EXCEPT !.numSlices = g.numSlices],
                         g.verts, g.indices)
       /\ Loaded("cylinder", "LoadCylinderMesh",
                 [radius |-> radius, height |-> height, numSlices |-> numSlices], g)

LoadTaperedCylinderMesh(bottomRadius, topRadius, height, numSlices) ==
    LET g == TaperedCylinderGeometry(bottomRadius, topRadius, height, numSlices)
    IN /\ InitializeMesh("taperedCylinder",
                         [meshes["taperedCylinder"] EXCEPT !.numSlices = g.numSlices],
                         g.verts, g.indices)
       /\ Loaded("taperedCylinder", "LoadTaperedCylinderMesh",
                 [bottomRadius |-> bottomRadius, topRadius |-> topRadius,
                  height |-> height, numSlices |-> numSlices], g)

(***************************************************************************)
(* Draw operations of the static shapes.                                   *)
(***************************************************************************)
\* what a Draw operation leaves: the GL calls it made, and nothing loaded
Issued(shape, name, args, calls, err, mode) ==
    /\ running
    /\ UNCHANGED running
    /\ drawCalls' = calls
    /\ errorSignalled' = err
    /\ polygonMode' = mode
    /\ lastOp' = [kind |-> "draw", name |-> name, shape |-> shape, args |-> args]

Drawn(shape, name, args, calls, err, mode) ==
    /\ Issued(shape, name, args, calls, err, mode)
    /\ UNCHANGED <<meshes, glVertexArrays, glBuffers, m_bMemoryLayoutDone,
                   layoutCalls, gen, nLoads>>

DrawBoxMesh(wireframe) ==
    LET m == meshes["box"]
        mode == SetWireframeMode(wireframe)
    IN IF m.vao = 0 \/ m.nIndices = 0
       THEN Drawn("box", "DrawBoxMesh", [wireframe |-> wireframe], <<>>, TRUE,
                  polygonMode)
       ELSE Drawn("box", "DrawBoxMesh", [wireframe |-> wireframe],
                  << DrawElements("TRIANGLES", m.vao, m.nIndices, 0, mode) >>,
                  FALSE, mode)

\* enum class BoxSide, in declaration order
BoxSide == {"back", "bottom", "left", "right", "top", "front"}

\* the switch of DrawBoxMeshSide with the byte offset handed to glDrawElements
\* in place of the index offset
BoxSideOffset_Bytes(side) ==
    CASE side = "front"  -> 0 * indicesPerFace * 4
      [] side = "back"   -> 1 * indicesPerFace * 4
      [] side = "left"   -> 2 * indicesPerFace * 4
      [] side = "right"  -> 3 * indicesPerFace * 4
      [] side = "top"    -> 4 * indicesPerFace * 4
      [] side = "bottom" -> 5 * indicesPerFace * 4

\* the switch of DrawBoxMeshSide
BoxSideOffset(side) ==
    CASE side = "front"  -> 0 * indicesPerFace
      [] side = "back"   -> 1 * indicesPerFace
      [] side = "left"   -> 2 * indicesPerFace
      [] side = "right"  -> 3 * indicesPerFace
      [] side = "top"    -> 4 * indicesPerFace
      [] side = "bottom" -> 5 * indicesPerFace

DrawBoxMeshSide(side, wireframe) ==
    LET m == meshes["box"]
        mode == SetWireframeMode(wireframe)
        args == [side |-> side, wireframe |-> wireframe]
    IN IF m.vao = 0 \/ m.nIndices = 0
       THEN Drawn("box", "DrawBoxMeshSide", args, <<>>, TRUE, polygonMode)
       ELSE Drawn("box", "DrawBoxMeshSide", args,
                  << DrawElements("TRIANGLES", m.vao, indicesPerFace,
                                  BoxSideOffset(side), mode) >>,
                  FALSE, mode)

\* index ranges of DrawConeMesh: <<first, count>> of the bottom and the sides
ConeBottomRange(numSlices) == <<0, numSlices * 3>>
ConeSideRange(numSlices) == <<numSlices * 3, numSlices * 3>>

DrawConeMesh(bDrawBottom, wireframe) ==
    LET m == meshes["cone"]
        mode == SetWireframeMode(wireframe)
        args == [bDrawBottom |-> bDrawBottom, wireframe |-> wireframe]
        bottom == ConeBottomRange(m.numSlices)
        side == ConeSideRange(m.numSlices)
    IN IF m.vao = 0
       THEN Drawn("cone", "DrawConeMesh", args, <<>>, FALSE, polygonMode)
       ELSE Drawn("cone", "DrawConeMesh", args,
                  (IF bDrawBottom
                   THEN << DrawElements("TRIANGLES", m.vao, bottom[2], bottom[1], mode) >>
                   ELSE <<>>)
                  \o << DrawElements("TRIANGLES", m.vao, side[2], side[1], mode) >>,
                  FALSE, mode)

\* index ranges of DrawCylinderMesh
CylinderBottomRange(numSlices) == <<0, numSlices * 3>>
CylinderTopRange(numSlices) == <<numSlices * 3, numSlices * 3>>
CylinderSideRange_AfterBottom(numSlices) == <<numSlices * 3, numSlices * 6>>
CylinderSideRange(numSlices) == <<numSlices * 6, numSlices * 6>>

DrawCylinderMesh(bDrawTop, bDrawBottom, bDrawSides, wireframe) ==
    LET m == meshes["cylinder"]
        mode == SetWireframeMode(wireframe)
        args == [bDrawTop |-> bDrawTop, bDrawBottom |-> bDrawBottom,
                 bDrawSides |-> bDrawSides, wireframe |-> wireframe]
        bottom == CylinderBottomRange(m.numSlices)
        top == CylinderTopRange(m.numSlices)
        side == CylinderSideRange(m.numSlices)
    IN Drawn("cylinder", "DrawCylinderMesh", args,
             (IF bDrawBottom
              THEN << DrawElements("TRIANGLES", m.vao, bottom[2], bottom[1], mode) >>
              ELSE <<>>)
             \o (IF bDrawTop
                 THEN << DrawElements("TRIANGLES", m.vao, top[2], top[1], mode) >>
                 ELSE <<>>)
             \o (IF bDrawSides
                 THEN << DrawElements("TRIANGLES", m.vao, side[2], side[1], mode) >>
                 ELSE <<>>),
             FALSE, mode)

\* index ranges of DrawTaperedCylinderMesh: bottomOff, topOff, sideOff
TaperedBottomRange(n) == <<0, n * 3>>
TaperedTopRange(n) == <<n * 3, n * 3>>
TaperedSideRange(n) == <<n * 3 + n * 3, n * 6>>

DrawTaperedCylinderMesh(bDrawTop, bDrawBottom, bDrawSides, wireframe) ==
    LET m == meshes["taperedCylinder"]
        mode == SetWireframeMode(wireframe)
        args == [bDrawTop |-> bDrawTop, bDrawBottom |-> bDrawBottom,
                 bDrawSides |-> bDrawSides, wireframe |-> wireframe]
        bottom == TaperedBottomRange(m.numSlices)
        top == TaperedTopRange(m.numSlices)
        side == TaperedSideRange(m.numSlices)
    IN Drawn("taperedCylinder", "DrawTaperedCylinderMesh", args,
             (IF bDrawBottom
              THEN << DrawElements("TRIANGLES", m.vao, bottom[2], bottom[1], mode) >>
              ELSE <<>>)
             \o (IF bDrawTop
                 THEN << DrawElements("TRIANGLES", m.vao, top[2], top[1], mode) >>
                 ELSE <<>>)
             \o (IF bDrawSides
                 THEN << DrawElements("TRIANGLES", m.vao, side[2], side[1], mode) >>
                 ELSE <<>>),
             FALSE, mode)


(***************************************************************************)
(* DrawPartialConeMesh: builds the open cone sector on every call, draws   *)
(* it from temporary GL objects and deletes them.                          *)
(***************************************************************************)
\* glm::clamp(x, lo, hi)
Clamp(x, lo, hi) == IF x < lo THEN lo ELSE IF x > hi THEN hi ELSE x

\* angle = -halfArc + i * angleStep, with angleStep = radians(arcDegrees) / numSlices
ArcAngle(arcDegrees, i, numSlices) == <<"arc", arcDegrees, i, numSlices>>

PartialConeVerts(radius, height, numSlices, arcDegrees) ==
    LoopBlocks(numSlices + 1, LAMBDA i :
        LET angle == ArcAngle(arcDegrees, i, numSlices)
            u == Frac(i, numSlices)
            n == Normalize(<<"cone", angle, radius, height>>)
        IN << Vertex(Polar(radius, angle, 0), n, <<u, 1>>),
              Vertex(<<0, height, 0>>, n, <<u, 0>>) >>)

\* the index buffer with the two commented-out end caps enabled
PartialConeIndices_Capped(numSlices) ==
    LoopBlocks(numSlices, LAMBDA i :
        LET b0 == 2 * i
            a0 == b0 + 1
            b1 == 2 * (i + 1)
            a1 == b1 + 1
        IN Tri(b0, a1, a0) \o Tri(b0, b1, a1))
    \o Tri(1, 0, 2 * numSlices)
    \o Tri(1, 2 * numSlices + 1, 2 * numSlices)

PartialConeIndices(numSlices) ==
    LoopBlocks(numSlices, LAMBDA i :
        LET b0 == 2 * i
            a0 == b0 + 1
            b1 == 2 * (i + 1)
            a1 == b1 + 1
        IN Tri(b0, a1, a0) \o Tri(b0, b1, a1))

PartialConeGeometry(radius, height, numSlicesArg, arcDegreesArg) ==
    LET numSlices == ClampSlices(numSlicesArg)
        arcDegrees == Clamp(arcDegreesArg, 0, 360)
    IN [verts |-> PartialConeVerts(radius, height, numSlices, arcDegrees),
        indices |-> PartialConeIndices(numSlices),
        numSlices |-> numSlices,
        arcDegrees |-> arcDegrees]

DrawPartialConeMesh(radius, height, numSlices, arcDegrees, wireframe) ==
    LET g == PartialConeGeometry(radius, height, numSlices, arcDegrees)
        VAO == Fresh(DOMAIN glVertexArrays)
        mode == SetWireframeMode(wireframe)
        args == [radius |-> radius, height |-> height, numSlices |-> numSlices,
                 arcDegrees |-> arcDegrees, wireframe |-> wireframe]
    IN /\ Issued("partialCone", "DrawPartialConeMesh", args,
                 << DrawElements("TRIANGLES", VAO, Len(g.indices), 0, mode) >>,
                 FALSE, mode)
       /\ gen' = [shape |-> "partialCone", args |-> args, geo |-> g]
       /\ UNCHANGED <<meshes, glVertexArrays, glBuffers, m_bMemoryLayoutDone,
                      layoutCalls, nLoads>>


(***************************************************************************)
(* LoadSphereMesh / LoadHemisphereMesh: a latitude-longitude grid with a   *)
(* duplicated seam column.  The segment counts are used as given.          *)
(***************************************************************************)
\* 1.0f - q
OneMinus(q) == <<"1-", q>>

\* the point of the sphere at polar angle theta (half turns) and longitude
\* phi (turns): (r sin(theta) cos(phi), r cos(theta), r sin(theta) sin(phi))
Spherical(r, theta, phi) == <<"spherical", r, theta, phi>>

SphereVerts(latitudeSegments, longitudeSegments, radius) ==
    LoopBlocks(latitudeSegments + 1, LAMBDA lat :
        Loop(longitudeSegments + 1, LAMBDA lon :
            LET theta == Frac(lat, latitudeSegments)
                phi == Frac(lon, longitudeSegments)
            IN Vertex(Spherical(radius, theta, phi), Spherical(1, theta, phi),
                      << OneMinus(Frac(lon, longitudeSegments)),
                         OneMinus(Frac(lat, latitudeSegments)) >>)))

\* a cell list whose second triangle runs the other way round
SphereIndices_Flipped(latitudeSegments, longitudeSegments) ==
    LoopBlocks(latitudeSegments, LAMBDA lat :
        LoopBlocks(longitudeSegments, LAMBDA lon :
            LET first == lat * (longitudeSegments + 1) + lon
                second == first + longitudeSegments + 1
            IN Tri(first, second, first + 1) \o Tri(second, first + 1, second + 1)))

SphereIndices(latitudeSegments, longitudeSegments) ==
    LoopBlocks(latitudeSegments, LAMBDA lat :
        LoopBlocks(longitudeSegments, LAMBDA lon :
            LET first == lat * (longitudeSegments + 1) + lon
                second == first + longitudeSegments + 1
            IN Tri(first, second, first + 1) \o Tri(second, second + 1, first + 1)))

SphereGeometry(latitudeSegments, longitudeSegments, radius) ==
    [verts |-> SphereVerts(latitudeSegments, longitudeSegments, radius),
     indices |-> SphereIndices(latitudeSegments, longitudeSegments),
     latitudeSegments |-> latitudeSegments,
     longitudeSegments |-> longitudeSegments]

LoadSphereMesh(latitudeSegments, longitudeSegments, radius) ==
    LET g == SphereGeometry(latitudeSegments, longitudeSegments, radius)
    IN /\ InitializeMesh("sphere",
               [meshes["sphere"] EXCEPT
                   !.nVertices = (Len(g.verts) * FloatsPerRecord)
                                 \div (FloatsPerVertex + FloatsPerNormal + FloatsPerUV),
                   !.nIndices = Len(g.indices)],
               g.verts, g.indices)
       /\ Loaded("sphere", "LoadSphereMesh",
                 [latitudeSegments |-> latitudeSegments,
                  longitudeSegments |-> longitudeSegments, radius |-> radius], g)

HemisphereVerts(latitudeSegments, longitudeSegments, radius) ==
    LET hemiLatSegments == CDiv(latitudeSegments, 2)
    IN LoopBlocks(hemiLatSegments + 1, LAMBDA lat :
           Loop(longitudeSegments + 1, LAMBDA lon :
               LET theta == Frac(lat, latitudeSegments)
                   phi == Frac(lon, longitudeSegments)
               IN Vertex(Spherical(radius, theta, phi), Spherical(1, theta, phi),
                         << OneMinus(Frac(lon, longitudeSegments)),
                            OneMinus(Frac(lat, hemiLatSegments)) >>)))

HemisphereIndices(latitudeSegments, longitudeSegments) ==
    LET hemiLatSegments == CDiv(latitudeSegments, 2)
    IN LoopBlocks(hemiLatSegments, LAMBDA lat :
           LoopBlocks(longitudeSegments, LAMBDA lon :
               LET first == lat * (longitudeSegments + 1) + lon
                   second == first + longitudeSegments + 1
               IN Tri(first, second, first + 1) \o Tri(second, second + 1, first + 1)))

HemisphereGeometry(latitudeSegments, longitudeSegments, radius) ==
    [verts |-> HemisphereVerts(latitudeSegments, longitudeSegments, radius),
     indices |-> HemisphereIndices(latitudeSegments, longitudeSegments),
     latitudeSegments |-> latitudeSegments,
     longitudeSegments |-> longitudeSegments]

LoadHemisphereMesh(latitudeSegments, longitudeSegments, radius) ==
    LET g == HemisphereGeometry(latitudeSegments, longitudeSegments, radius)
    IN /\ InitializeMesh("hemisphere",
               [meshes["hemisphere"] EXCEPT
                   !.nVertices = (Len(g.verts) * FloatsPerRecord)
                                 \div (FloatsPerVertex + FloatsPerNormal + FloatsPerUV),
                   !.nIndices = Len(g.indices)],
               g.verts, g.indices)
       /\ Loaded("hemisphere", "LoadHemisphereMesh",
                 [latitudeSegments |-> latitudeSegments,
                  longitudeSegments |-> longitudeSegments, radius |-> radius], g)

(***************************************************************************)
(* LoadTorusMesh: (mainSegments + 1) x (tubeSegments + 1) grid.            *)
(***************************************************************************)
\* std::max(3, segments)
MaxInt(lo, x) == IF x < lo THEN lo ELSE x

\* the least tube radius 0.01f; tubeRadius is counted in units of it
TorusMinTubeRadius == 1
\* std::max(eps, x), and "if (x <= 0.0f) x = eps;", of a float x counted in
\* units of eps: x is either at least eps or not positive
MaxFloat(eps, x) == IF x <= 0 THEN eps ELSE x

TorusVerts(mainRadius, tubeRadius, mainSegments, tubeSegments) ==
    LoopBlocks(mainSegments + 1, LAMBDA i :
        Loop(tubeSegments + 1, LAMBDA j :
            LET mainAngle == Frac(i, mainSegments)
                tubeAngle == Frac(j, tubeSegments)
            IN Vertex(<<"torus", mainRadius, tubeRadius, mainAngle, tubeAngle>>,
                      Normalize(<<"torusNormal", tubeRadius, mainAngle, tubeAngle>>),
                      << Frac(i, mainSegments), Frac(j, tubeSegments) >>)))

TorusIndices(mainSegments, tubeSegments) ==
    LoopBlocks(mainSegments, LAMBDA i :
        LoopBlocks(tubeSegments, LAMBDA j :
            LET current == i * (tubeSegments + 1) + j
                next == (i + 1) * (tubeSegments + 1) + j
            IN Tri(current, next, current + 1) \o Tri(current + 1, next, next + 1)))

TorusGeometry(mainRadius, tubeRadiusArg, mainSegmentsArg, tubeSegmentsArg) ==
    LET mainSegments == MaxInt(MinSlices, mainSegmentsArg)
        tubeSegments == MaxInt(MinSlices, tubeSegmentsArg)
        tubeRadius == MaxFloat(TorusMinTubeRadius, tubeRadiusArg)
    IN [verts |-> TorusVerts(mainRadius, tubeRadius, mainSegments, tubeSegments),
        indices |-> TorusIndices(mainSegments, tubeSegments),
        mainSegments |-> mainSegments,
        tubeSegments |-> tubeSegments,
        tubeRadius |-> tubeRadius]

LoadTorusMesh(mainRadius, tubeRadius, mainSegments, tubeSegments) ==
    LET g == TorusGeometry(mainRadius, tubeRadius, mainSegments, tubeSegments)
    IN /\ InitializeMesh("torus",
               [meshes["torus"] EXCEPT
                   !.nVertices = (Len(g.verts) * FloatsPerRecord)
                                 \div (FloatsPerVertex + FloatsPerNormal + FloatsPerUV),
                   !.nIndices = Len(g.indices)],
               g.verts, g.indices)
       /\ Loaded("torus", "LoadTorusMesh",
                 [mainRadius |-> mainRadius, tubeRadius |-> tubeRadius,
                  mainSegments |-> mainSegments, tubeSegments |-> tubeSegments], g)

(***************************************************************************)
(* LoadExtraTorusMesh1 / LoadExtraTorusMesh2: a torus of 30 x 30 segments  *)
(* of main radius 1 without indices, seven vertices for every cell; the    *)
(* last row and column wrap to segment 0.  The two functions differ in the *)
(* handle only.  The handle keeps its buffer in vbos[0], the vertex array  *)
(* stays bound when the function returns.                                  *)
(***************************************************************************)
\* int _mainSegments = 30
ExtraTorusMainSegments == 30
\* int _tubeSegments = 30
ExtraTorusTubeSegments == 30

\* float _tubeRadius = .1f; if (thickness <= 1.0) _tubeRadius = thickness;
\* thickness is a rational <<p, q>>, q > 0
ExtraTorusTubeRadius(thickness) ==
    IF thickness[1] <= thickness[2] THEN thickness ELSE Frac(1, 10)

\* segments_list[i][j]: ((1 + r cos t) cos m, (1 + r cos t) sin m, r sin t)
\* at the main angle m = i / 30 and the tube angle t = j / 30 of a turn
ExtraTorusPoint(tubeRadius, i, j) ==
    <<"extraTorus", 1, tubeRadius, Frac(i, ExtraTorusMainSegments),
      Frac(j, ExtraTorusTubeSegments)>>

\* the vertex pushed at position slot (0..6) of the cell (i, j), with
\* u = i * horizontalStep and v = j * verticalStep
ExtraTorusCellVertex(tubeRadius, i, j, slot) ==
    LET lastMain == i + 1 = ExtraTorusMainSegments
        lastTube == j + 1 = ExtraTorusTubeSegments
        iNext == IF lastMain THEN 0 ELSE i + 1
        jNext == IF lastTube THEN 0 ELSE j + 1
        u == Frac(i, ExtraTorusMainSegments)
        v == Frac(j, ExtraTorusTubeSegments)
        uNext == IF lastMain THEN 0 ELSE Frac(i + 1, ExtraTorusMainSegments)
        vNext == IF lastTube THEN 0 ELSE Frac(j + 1, ExtraTorusTubeSegments)
        \* the sixth vertex of an inner cell has v - verticalStep
        vSixth == IF ~lastMain /\ ~lastTube
                  THEN Frac(j - 1, ExtraTorusTubeSegments) ELSE vNext
        point == CASE slot \in {0, 3, 6} -> ExtraTorusPoint(tubeRadius, i, j)
                   [] slot = 1 -> ExtraTorusPoint(tubeRadius, i, jNext)
                   [] slot \in {2, 5} -> ExtraTorusPoint(tubeRadius, iNext, jNext)
                   [] slot = 4 -> ExtraTorusPoint(tubeRadius, iNext, j)
        uv == CASE slot \in {0, 3, 6} -> <<u, v>>
                [] slot = 1 -> <<u, vNext>>
                [] slot = 2 -> <<uNext, vNext>>
                [] slot = 4 -> <<uNext, v>>
                [] slot = 5 -> <<uNext, vSixth>>
    IN Vertex(point, Normalize(point), uv)

ExtraTorusGeometry(thickness) ==
    LET tubeRadius == ExtraTorusTubeRadius(thickness)
        cells == ExtraTorusMainSegments * ExtraTorusTubeSegments
    IN [verts |-> [k \in 1..(7 * cells) |->
                      ExtraTorusCellVertex(tubeRadius,
                          ((k - 1) \div 7) \div ExtraTorusTubeSegments,
                          ((k - 1) \div 7) % ExtraTorusTubeSegments,
                          (k - 1) % 7)],
        indices |-> <<>>,
        tubeRadius |-> tubeRadius]

LoadExtraTorusMesh(shape, name, thickness) ==
    LET g == ExtraTorusGeometry(thickness)
        vao == Fresh(DOMAIN glVertexArrays)
        vbo == Fresh(DOMAIN glBuffers)
        doLayout == ~m_bMemoryLayoutDone
    IN /\ meshes' = [meshes EXCEPT ![shape] =
                        [@ EXCEPT !.nVertices = Len(g.verts),
                                  !.nIndices = 0,
                                  !.vao = vao,
                                  !.vbos = <<vbo, @[2]>>]]
       /\ glBuffers' = (vbo :> g.verts) @@ glBuffers
       /\ glVertexArrays' =
              (vao :> [elementBuffer |-> 0,
                       arrayBuffer |-> IF doLayout THEN vbo ELSE 0]) @@ glVertexArrays
       /\ layoutCalls' = IF doLayout THEN layoutCalls + 1 ELSE layoutCalls
       /\ UNCHANGED m_bMemoryLayoutDone
       /\ Loaded(shape, name, [thickness |-> thickness], g)

LoadExtraTorusMesh1(thickness) ==
    LoadExtraTorusMesh("extraTorus1", "LoadExtraTorusMesh1", thickness)

LoadExtraTorusMesh2(thickness) ==
    LoadExtraTorusMesh("extraTorus2", "LoadExtraTorusMesh2", thickness)

(***************************************************************************)
(* LoadSpringMesh: mainSegments * tubeSegments + 1 rings of                *)
(* tubeSegments + 1 vertices along a helix.                                *)
(***************************************************************************)
SpringVerts(mainRadius, tubeRadius, mainSegments, tubeSegments, springLength) ==
    LoopBlocks(mainSegments * tubeSegments + 1, LAMBDA i :
        Loop(tubeSegments + 1, LAMBDA j :
            LET mainAngle == Frac(i, tubeSegments)
                tubeAngle == Frac(j, tubeSegments)
                centerZ == <<"height", springLength, Frac(i, mainSegments * tubeSegments)>>
            IN Vertex(<<"spring", mainRadius, tubeRadius, mainAngle, centerZ, tubeAngle>>,
                      Normalize(<<"springNormal", mainRadius, tubeRadius, mainAngle,
                                  tubeAngle>>),
                      << Frac(i, mainSegments * tubeSegments),
                         Frac(j, tubeSegments) >>)))

SpringIndices(mainSegments, tubeSegments) ==
    LoopBlocks(mainSegments * tubeSegments, LAMBDA i :
        LoopBlocks(tubeSegments, LAMBDA j :
            LET current == i * (tubeSegments + 1) + j
                next == (i + 1) * (tubeSegments + 1) + j
            IN Tri(current, next, current + 1) \o Tri(current + 1, next, next + 1)))

SpringGeometry(mainRadius, tubeRadius, mainSegmentsArg, tubeSegmentsArg, springLength) ==
    LET mainSegments == MaxInt(1, mainSegmentsArg)
        tubeSegments == MaxInt(SpringMinTube, tubeSegmentsArg)
    IN [verts |-> SpringVerts(mainRadius, tubeRadius, mainSegments, tubeSegments,
                              springLength),
        indices |-> SpringIndices(mainSegments, tubeSegments),
        mainSegments |-> mainSegments,
        tubeSegments |-> tubeSegments]

LoadSpringMesh(mainRadius, tubeRadius, mainSegments, tubeSegments, springLength) ==
    LET g == SpringGeometry(mainRadius, tubeRadius, mainSegments, tubeSegments,
                            springLength)
    IN /\ InitializeMesh("spring",
               [meshes["spring"] EXCEPT
                   !.nVertices = (Len(g.verts) * FloatsPerRecord)
                                 \div (FloatsPerVertex + FloatsPerNormal + FloatsPerUV),
                   !.nIndices = Len(g.indices)],
               g.verts, g.indices)
       /\ Loaded("spring", "LoadSpringMesh",
                 [mainRadius |-> mainRadius, tubeRadius |-> tubeRadius,
                  mainSegments |-> mainSegments, tubeSegments |-> tubeSegments,
                  springLength |-> springLength], g)

(***************************************************************************)
(* LoadTubeMesh: four vertices per angular sample (outer bottom, outer     *)
(* top, inner bottom, inner top), walls and ring caps.                     *)
(***************************************************************************)
TubeVerts(outerRadius, innerRadius, height, numSlices) ==
    LoopBlocks(numSlices + 1, LAMBDA i :
        LET a == Frac(i, numSlices)
            u == Frac(i, numSlices)
        IN << Vertex(Polar(outerRadius, a, 0), <<0, -1, 0>>, <<u, 1>>),
              Vertex(Polar(outerRadius, a, height), <<0, 1, 0>>, <<u, 0>>),
              Vertex(Polar(innerRadius, a, 0), <<0, -1, 0>>, <<u, 1>>),
              Vertex(Polar(innerRadius, a, height), <<0, 1, 0>>, <<u, 0>>) >>)

TubeWallIndices(numSlices) ==
    LoopBlocks(numSlices, LAMBDA i :
        LET outerBottom1 == i * 4
            outerTop1 == outerBottom1 + 1
            outerBottom2 == outerBottom1 + 4
            outerTop2 == outerTop1 + 4
            innerBottom1 == outerBottom1 + 2
            innerTop1 == outerTop1 + 2
            innerBottom2 == innerBottom1 + 4
            innerTop2 == innerTop1 + 4
        IN Tri(outerBottom1, outerBottom2, outerTop1)
           \o Tri(outerTop1, outerBottom2, outerTop2)
           \o Tri(innerBottom1, innerTop1, innerBottom2)
           \o Tri(innerTop1, innerTop2, innerBottom2))

TubeCapIndices(numSlices) ==
    LoopBlocks(numSlices, LAMBDA i :
        LET outerBottom1 == i * 4
            innerBottom1 == outerBottom1 + 2
            outerBottom2 == outerBottom1 + 4
            innerBottom2 == innerBottom1 + 4
            outerTop1 == outerBottom1 + 1
            innerTop1 == innerBottom1 + 1
            outerTop2 == outerBottom2 + 1
            innerTop2 == innerBottom2 + 1
        IN Tri(outerBottom1, outerBottom2, innerBottom1)
           \o Tri(innerBottom1, outerBottom2, innerBottom2)
           \o Tri(innerTop1, outerTop1, innerTop2)
           \o Tri(innerTop2, outerTop1, outerTop2))

TubeGeometry(outerRadius, innerRadius, height, numSlicesArg) ==
    LET numSlices == ClampSlices(numSlicesArg)
    IN [verts |-> TubeVerts(outerRadius, innerRadius, height, numSlices),
        indices |-> TubeWallIndices(numSlices) \o TubeCapIndices(numSlices),
        numSlices |-> numSlices]

LoadTubeMesh(outerRadius, innerRadius, height, numSlices) ==
    LET g == TubeGeometry(outerRadius, innerRadius, height, numSlices)
    IN /\ InitializeMesh("tube",
               [meshes["tube"] EXCEPT
                   !.numSlices = g.numSlices,
                   !.nVertices = (Len(g.verts) * FloatsPerRecord)
                                 \div (FloatsPerVertex + FloatsPerNormal + FloatsPerUV),
                   !.nIndices = Len(g.indices)],
               g.verts, g.indices)
       /\ Loaded("tube", "LoadTubeMesh",
                 [outerRadius |-> outerRadius, innerRadius |-> innerRadius,
                  height |-> height, numSlices |-> numSlices], g)

(***************************************************************************)
(* LoadPlaneMesh, LoadPrismMesh, LoadPyramid3Mesh, LoadPyramid4Mesh: fixed *)
(* vertex lists.  Prism and pyramid positions are in units of 0.5.         *)
(***************************************************************************)
PlaneVerts(width, height) ==
    << Vertex(<<Frac(0 - width, 2), 0, Frac(height, 2)>>, <<0, 1, 0>>, <<0, 0>>),
       Vertex(<<Frac(width, 2), 0, Frac(height, 2)>>, <<0, 1, 0>>, <<1, 0>>),
       Vertex(<<Frac(width, 2), 0, Frac(0 - height, 2)>>, <<0, 1, 0>>, <<1, 1>>),
       Vertex(<<Frac(0 - width, 2), 0, Frac(0 - height, 2)>>, <<0, 1, 0>>, <<0, 1>>) >>

PlaneIndices == << 0, 1, 2, 0, 2, 3 >>

PlaneGeometry(width, height) ==
    [verts |-> PlaneVerts(width, height), indices |-> PlaneIndices]

LoadPlaneMesh(width, height) ==
    LET g == PlaneGeometry(width, height)
    IN /\ InitializeMesh("plane",
               [meshes["plane"] EXCEPT
                   !.nVertices = (Len(g.verts) * FloatsPerRecord)
                                 \div (FloatsPerVertex + FloatsPerNormal + FloatsPerUV),
                   !.nIndices = Len(g.indices)],
               g.verts, g.indices)
       /\ Loaded("plane", "LoadPlaneMesh", [width |-> width, height |-> height], g)

\* the literal (+-0.894427180, 0, -0.447213590): the unit vector along (+-2, 0, -1)
PrismSlantNormal(sign) == Normalize(<<2 * sign, 0, -1>>)

PrismVerts ==
    << Vertex(<<1, 1, -1>>, <<0, 0, -1>>, <<0, 1>>),
       Vertex(<<1, -1, -1>>, <<0, 0, -1>>, <<0, 0>>),
       Vertex(<<-1, -1, -1>>, <<0, 0, -1>>, <<1, 0>>),
       Vertex(<<1, 1, -1>>, <<0, 0, -1>>, <<0, 1>>),
       Vertex(<<1, 1, -1>>, <<0, 0, -1>>, <<0, 1>>),
       Vertex(<<-1, 1, -1>>, <<0, 0, -1>>, <<1, 1>>),
       Vertex(<<-1, -1, -1>>, <<0, 0, -1>>, <<1, 0>>),
       Vertex(<<1, 1, -1>>, <<0, 0, -1>>, <<0, 1>>),
       Vertex(<<1, -1, -1>>, <<0, -1, 0>>, <<0, 0>>),
       Vertex(<<-1, -1, -1>>, <<0, -1, 0>>, <<1, 0>>),
       Vertex(<<0, -1, 1>>, <<0, -1, 0>>, <<Half, 1>>),
       Vertex(<<-1, -1, -1>>, <<0, -1, 0>>, <<0, 0>>),
       Vertex(<<-1, -1, -1>>, PrismSlantNormal(1), <<0, 0>>),
       Vertex(<<-1, 1, -1>>, PrismSlantNormal(1), <<0, 1>>),
       Vertex(<<0, 1, 1>>, PrismSlantNormal(1), <<1, 1>>),
       Vertex(<<-1, -1, -1>>, PrismSlantNormal(1), <<0, 0>>),
       Vertex(<<-1, -1, -1>>, PrismSlantNormal(1), <<0, 0>>),
       Vertex(<<0, -1, 1>>, PrismSlantNormal(1), <<1, 0>>),
       Vertex(<<0, 1, 1>>, PrismSlantNormal(1), <<1, 1>>),
       Vertex(<<-1, -1, -1>>, PrismSlantNormal(1), <<0, 0>>),
       Vertex(<<0, 1, 1>>, PrismSlantNormal(-1), <<0, 1>>),
       Vertex(<<1, 1, -1>>, PrismSlantNormal(-1), <<1, 1>>),
       Vertex(<<1, -1, -1>>, PrismSlantNormal(-1), <<1, 0>>),
       Vertex(<<0, 1, 1>>, PrismSlantNormal(-1), <<0, 1>>),
       Vertex(<<0, 1, 1>>, PrismSlantNormal(-1), <<0, 1>>),
       Vertex(<<0, -1, 1>>, PrismSlantNormal(-1), <<0, 0>>),
       Vertex(<<1, -1, -1>>, PrismSlantNormal(-1), <<1, 0>>),
       Vertex(<<0, 1, 1>>, PrismSlantNormal(-1), <<0, 1>>),
       Vertex(<<1, 1, -1>>, <<0, 1, 0>>, <<0, 0>>),
       Vertex(<<0, 1, 1>>, <<0, 1, 0>>, <<Half, 1>>),
       Vertex(<<-1, 1, -1>>, <<0, 1, 0>>, <<1, 0>>),
       Vertex(<<1, 1, -1>>, <<0, 1, 0>>, <<0, 0>>) >>

\* "0, 1, 2, // Example indices"
PrismIndices == << 0, 1, 2 >>

PrismGeometry == [verts |-> PrismVerts, indices |-> PrismIndices]

LoadPrismMesh ==
    /\ InitializeMesh("prism",
           [meshes["prism"] EXCEPT
               !.nVertices = (Len(PrismVerts) * FloatsPerRecord)
                             \div (FloatsPerVertex + FloatsPerNormal + FloatsPerUV)],
           PrismVerts, PrismIndices)
    /\ Loaded("prism", "LoadPrismMesh", <<>>, PrismGeometry)


\* the cross product calculateNormal takes before it divides by the length
Cross(a, b) ==
    << a[2] * b[3] - a[3] * b[2],
       a[3] * b[1] - a[1] * b[3],
       a[1] * b[2] - a[2] * b[1] >>

\* LoadPyramid3Mesh: top, bottom1, bottom2 and the two vectors handed to
\* calculateNormal, for the left, right and front face (halfBase = height = 0.5)
Pyramid3Faces ==
    << [top |-> <<0, 1, 0>>, bottom1 |-> <<-1, -1, 1>>, bottom2 |-> <<0, -1, -1>>,
        normal |-> Normalize(Cross(<<-1, -2, 1>>, <<0, -2, -2>>))],
       [top |-> <<0, 1, 0>>, bottom1 |-> <<0, -1, -1>>, bottom2 |-> <<1, -1, 1>>,
        normal |-> Normalize(Cross(<<0, -2, -1>>, <<1, -2, 2>>))],
       [top |-> <<0, 1, 0>>, bottom1 |-> <<1, -1, 1>>, bottom2 |-> <<-1, -1, 1>>,
        normal |-> Normalize(Cross(<<1, -2, 1>>, <<-1, -2, 0>>))] >>

Pyramid3Verts ==
    LoopBlocks(Len(Pyramid3Faces), LAMBDA f :
        LET face == Pyramid3Faces[f + 1]
        IN << Vertex(face.top, face.normal, <<Half, 1>>),
              Vertex(face.bottom1, face.normal, <<0, 0>>),
              Vertex(face.bottom2, face.normal, <<1, 0>>) >>)
    \o << Vertex(<<-1, -1, 1>>, <<0, -1, 0>>, <<0, 1>>),
          Vertex(<<1, -1, 1>>, <<0, -1, 0>>, <<1, 1>>),
          Vertex(<<0, -1, -1>>, <<0, -1, 0>>, <<Half, 0>>) >>

Pyramid3Geometry == [verts |-> Pyramid3Verts, indices |-> <<>>]

LoadPyramid3Mesh ==
    /\ InitializeMesh("pyramid3",
           [meshes["pyramid3"] EXCEPT
               !.nVertices = (Len(Pyramid3Verts) * FloatsPerRecord)
                             \div (FloatsPerVertex + FloatsPerNormal + FloatsPerUV),
               !.nIndices = 0],
           Pyramid3Verts, <<>>)
    /\ Loaded("pyramid3", "LoadPyramid3Mesh", <<>>, Pyramid3Geometry)

\* LoadPyramid4Mesh(baseSize, height): positions in units of halfBase, the
\* apex at height / 2
Pyramid4Apex(height) == <<0, <<"height/2", height>>, 0>>

Pyramid4Faces(height) ==
    << [top |-> Pyramid4Apex(height), bottomLeft |-> <<-1, -1, -1>>,
        bottomRight |-> <<-1, -1, 1>>],
       [top |-> Pyramid4Apex(height), bottomLeft |-> <<1, -1, -1>>,
        bottomRight |-> <<-1, -1, -1>>],
       [top |-> Pyramid4Apex(height), bottomLeft |-> <<1, -1, 1>>,
        bottomRight |-> <<1, -1, -1>>],
       [top |-> Pyramid4Apex(height), bottomLeft |-> <<-1, -1, 1>>,
        bottomRight |-> <<1, -1, 1>>] >>

Pyramid4Verts(baseSize, height) ==
    << Vertex(<<"halfBase", baseSize, <<-1, -1, 1>> >>, <<0, -1, 0>>, <<0, 1>>),
       Vertex(<<"halfBase", baseSize, <<-1, -1, -1>> >>, <<0, -1, 0>>, <<0, 0>>),
       Vertex(<<"halfBase", baseSize, <<1, -1, -1>> >>, <<0, -1, 0>>, <<1, 0>>),
       Vertex(<<"halfBase", baseSize, <<-1, -1, 1>> >>, <<0, -1, 0>>, <<0, 1>>),
       Vertex(<<"halfBase", baseSize, <<1, -1, -1>> >>, <<0, -1, 0>>, <<1, 0>>),
       Vertex(<<"halfBase", baseSize, <<1, -1, 1>> >>, <<0, -1, 0>>, <<1, 1>>) >>
    \o LoopBlocks(Len(Pyramid4Faces(height)), LAMBDA f :
        LET face == Pyramid4Faces(height)[f + 1]
            normal == Normalize(<<"cross", baseSize, face.bottomRight,
                                  face.bottomLeft, face.top>>)
        IN << Vertex(<<"halfBase", baseSize, face.top>>, normal, <<Half, 1>>),
              Vertex(<<"halfBase", baseSize, face.bottomLeft>>, normal, <<0, 0>>),
              Vertex(<<"halfBase", baseSize, face.bottomRight>>, normal, <<1, 0>>) >>)

Pyramid4Geometry(baseSize, height) ==
    [verts |-> Pyramid4Verts(baseSize, height), indices |-> <<>>]

LoadPyramid4Mesh(baseSize, height) ==
    LET g == Pyramid4Geometry(baseSize, height)
    IN /\ InitializeMesh("pyramid4",
               [meshes["pyramid4"] EXCEPT
                   !.nVertices = (Len(g.verts) * FloatsPerRecord)
                                 \div (FloatsPerVertex + FloatsPerNormal + FloatsPerUV),
                   !.nIndices = 0],
               g.verts, <<>>)
       /\ Loaded("pyramid4", "LoadPyramid4Mesh",
                 [baseSize |-> baseSize, height |-> height], g)

(***************************************************************************)
(* LoadFinMesh: a trapezoid slab with its own vertex-array setup; only     *)
(* nIndices is stored in the handle.                                       *)
(***************************************************************************)
\* the corners v0 .. v7: <<x, y, z>> with z = -+ thickness / 2
FinCorner(k, baseLength, topLength, height, thickness) ==
    LET z == IF k < 4 THEN Frac(0 - thickness, 2) ELSE Frac(thickness, 2)
    IN CASE k % 4 = 0 -> <<0, 0, z>>
         [] k % 4 = 1 -> <<baseLength, 0, z>>
         [] k % 4 = 2 -> <<0, height, z>>
         [] k % 4 = 3 -> <<topLength, height, z>>

\* corner, normal and texture coordinate of the 24 addVertex calls
FinVertexTable ==
    << <<0, <<0, 0, -1>>, <<0, 0>> >>, <<1, <<0, 0, -1>>, <<1, 0>> >>,
       <<2, <<0, 0, -1>>, <<0, 1>> >>, <<3, <<0, 0, -1>>, <<1, 1>> >>,
       <<4, <<0, 0, 1>>, <<0, 0>> >>, <<5, <<0, 0, 1>>, <<1, 0>> >>,
       <<6, <<0, 0, 1>>, <<0, 1>> >>, <<7, <<0, 0, 1>>, <<1, 1>> >>,
       <<2, <<0, 1, 0>>, <<0, 0>> >>, <<3, <<0, 1, 0>>, <<0, 0>> >>,
       <<6, <<0, 1, 0>>, <<0, 0>> >>, <<7, <<0, 1, 0>>, <<0, 0>> >>,
       <<0, <<0, -1, 0>>, <<0, 0>> >>, <<1, <<0, -1, 0>>, <<0, 0>> >>,
       <<4, <<0, -1, 0>>, <<0, 0>> >>, <<5, <<0, -1, 0>>, <<0, 0>> >>,
       <<0, <<-1, 0, 0>>, <<0, 0>> >>, <<2, <<-1, 0, 0>>, <<0, 0>> >>,
       <<4, <<-1, 0, 0>>, <<0, 0>> >>, <<6, <<-1, 0, 0>>, <<0, 0>> >>,
       <<1, <<1, 0, 0>>, <<0, 0>> >>, <<3, <<1, 0, 0>>, <<0, 0>> >>,
       <<5, <<1, 0, 0>>, <<0, 0>> >>, <<7, <<1, 0, 0>>, <<0, 0>> >> >>

FinVerts(baseLength, topLength, height, thickness) ==
    Loop(Len(FinVertexTable), LAMBDA k :
        Vertex(FinCorner(FinVertexTable[k + 1][1], baseLength, topLength, height,
                         thickness),
               FinVertexTable[k + 1][2], FinVertexTable[k + 1][3]))

FinIndices ==
    << 0, 1, 2, 1, 3, 2,
       4, 6, 5, 5, 6, 7,
       8, 9, 10, 9, 11, 10,
       12, 14, 13, 14, 15, 13,
       16, 18, 17, 17, 18, 19,
       20, 21, 22, 21, 23, 22 >>

FinGeometry(baseLength, topLength, height, thickness) ==
    [verts |-> FinVerts(baseLength, topLength, height, thickness),
     indices |-> FinIndices]

LoadFinMesh(baseLength, topLength, height, thickness) ==
    LET g == FinGeometry(baseLength, topLength, height, thickness)
        vao == Fresh(DOMAIN glVertexArrays)
        vbo == Fresh(DOMAIN glBuffers)
        ebo == Fresh(DOMAIN glBuffers \cup {vbo})
    IN /\ meshes' = [meshes EXCEPT !["fin"] =
                        [@ EXCEPT !.vao = vao, !.vbo = vbo, !.ebo = ebo,
                                  !.nIndices = Len(g.indices)]]
       /\ glBuffers' = (vbo :> g.verts) @@ (ebo :> g.indices) @@ glBuffers
       /\ glVertexArrays' =
              (vao :> [elementBuffer |-> ebo, arrayBuffer |-> vbo]) @@ glVertexArrays
       /\ UNCHANGED <<layoutCalls, m_bMemoryLayoutDone>>
       /\ Loaded("fin", "LoadFinMesh",
                 [baseLength |-> baseLength, topLength |-> topLength,
                  height |-> height, thickness |-> thickness], g)

(***************************************************************************)
(* LoadCurvedConeMesh: (curveSteps + 1) rings of numSlices + 1 vertices    *)
(* along a circular arc, the radius shrinking to 0 at the tip.             *)
(***************************************************************************)
CurvedConeVerts(numSlices, curveSteps, radius, height, bendRadius) ==
    LoopBlocks(curveSteps + 1, LAMBDA step :
        Loop(numSlices + 1, LAMBDA slice :
            LET t == Frac(step, curveSteps)
                angle == Frac(slice, numSlices)
                offset == <<"offset", radius, OneMinus(t), <<height, bendRadius>>, angle>>
            IN Vertex(<<"arc", bendRadius, height, t, offset>>,
                      Normalize(offset),
                      << Frac(slice, numSlices), t >>)))

CurvedConeIndices(numSlices, curveSteps) ==
    LoopBlocks(curveSteps, LAMBDA step :
        LoopBlocks(numSlices, LAMBDA slice :
            LET current == step * (numSlices + 1) + slice
                next == (step + 1) * (numSlices + 1) + slice
            IN Tri(current, next, current + 1) \o Tri(current + 1, next, next + 1)))

CurvedConeGeometry(numSlicesArg, curveStepsArg, radius, height, bendRadius) ==
    LET numSlices == ClampSlices(numSlicesArg)
        curveSteps == IF curveStepsArg < 1 THEN 1 ELSE curveStepsArg
    IN [verts |-> CurvedConeVerts(numSlices, curveSteps, radius, height, bendRadius),
        indices |-> CurvedConeIndices(numSlices, curveSteps),
        numSlices |-> numSlices,
        curveSteps |-> curveSteps]

LoadCurvedConeMesh(numSlices, curveSteps, radius, height, bendRadius) ==
    LET g == CurvedConeGeometry(numSlices, curveSteps, radius, height, bendRadius)
    IN /\ InitializeMesh("curvedCone",
               [meshes["curvedCone"] EXCEPT !.numSlices = g.numSlices],
               g.verts, g.indices)
       /\ Loaded("curvedCone", "LoadCurvedConeMesh",
                 [numSlices |-> numSlices, curveSteps |-> curveSteps,
                  radius |-> radius, height |-> height, bendRadius |-> bendRadius], g)

(***************************************************************************)
(* Draws of the remaining static shapes.                                   *)
(***************************************************************************)
DrawPlaneMesh(wireframe) ==
    LET m == meshes["plane"]
        mode == SetWireframeMode(wireframe)
    IN Drawn("plane", "DrawPlaneMesh", [wireframe |-> wireframe],
             << DrawElements("TRIANGLE_STRIP", m.vao, m.nIndices, 0, mode) >>,
             FALSE, mode)

DrawPrismMesh(wireframe) ==
    LET m == meshes["prism"]
        mode == SetWireframeMode(wireframe)
    IN Drawn("prism", "DrawPrismMesh", [wireframe |-> wireframe],
             << DrawArrays("TRIANGLE_STRIP", m.vao, m.nVertices, 0, mode) >>,
             FALSE, mode)

DrawPyramid3Mesh(wireframe) ==
    LET m == meshes["pyramid3"]
        mode == SetWireframeMode(wireframe)
    IN IF m.nVertices = 0
       THEN Drawn("pyramid3", "DrawPyramid3Mesh", [wireframe |-> wireframe], <<>>,
                  TRUE, polygonMode)
       ELSE Drawn("pyramid3", "DrawPyramid3Mesh", [wireframe |-> wireframe],
                  << DrawArrays("TRIANGLE_STRIP", m.vao, m.nVertices, 0, mode) >>,
                  FALSE, mode)

DrawPyramid4Mesh(wireframe) ==
    LET m == meshes["pyramid4"]
        mode == SetWireframeMode(wireframe)
    IN IF m.nVertices = 0
       THEN Drawn("pyramid4", "DrawPyramid4Mesh", [wireframe |-> wireframe], <<>>,
                  TRUE, polygonMode)
       ELSE Drawn("pyramid4", "DrawPyramid4Mesh", [wireframe |-> wireframe],
                  << DrawArrays("TRIANGLE_STRIP", m.vao, m.nVertices, 0, mode) >>,
                  FALSE, mode)

DrawSphereMesh(wireframe) ==
    LET m == meshes["sphere"]
        mode == SetWireframeMode(wireframe)
    IN Drawn("sphere", "DrawSphereMesh", [wireframe |-> wireframe],
             << DrawElements("TRIANGLES", m.vao, m.nIndices, 0, mode) >>,
             FALSE, mode)

DrawHemisphereMesh(wireframe) ==
    LET m == meshes["hemisphere"]
        mode == SetWireframeMode(wireframe)
    IN Drawn("hemisphere", "DrawHemisphereMesh", [wireframe |-> wireframe],
             << DrawElements("TRIANGLES", m.vao, m.nIndices, 0, mode) >>,
             FALSE, mode)

\* draws the first half of the index buffer of the full sphere
DrawHalfSphereMesh(wireframe) ==
    LET m == meshes["sphere"]
        mode == SetWireframeMode(wireframe)
    IN IF m.vao = 0 \/ m.nIndices = 0
       THEN Drawn("sphere", "DrawHalfSphereMesh", [wireframe |-> wireframe], <<>>,
                  TRUE, polygonMode)
       ELSE Drawn("sphere", "DrawHalfSphereMesh", [wireframe |-> wireframe],
                  << DrawElements("TRIANGLES", m.vao, m.nIndices \div 2, 0, mode) >>,
                  FALSE, mode)

\* DrawFinMesh resets the polygon mode to GL_FILL after the call
DrawFinMesh(wireframe) ==
    LET m == meshes["fin"]
    IN Drawn("fin", "DrawFinMesh", [wireframe |-> wireframe],
             << DrawElements("TRIANGLES", m.vao, m.nIndices, 0,
                             IF wireframe THEN "LINE" ELSE "FILL") >>,
             FALSE, "FILL")

DrawFinSides ==
    LET m == meshes["fin"]
    IN Drawn("fin", "DrawFinSides", <<>>,
             << DrawElements("TRIANGLES", m.vao, 6, 0, polygonMode),
                DrawElements("TRIANGLES", m.vao, 6, 6, polygonMode) >>,
             FALSE, polygonMode)

DrawFinFrontOnly ==
    LET m == meshes["fin"]
    IN Drawn("fin", "DrawFinFrontOnly", <<>>,
             << DrawElements("TRIANGLES", m.vao, 6, 0, polygonMode) >>,
             FALSE, polygonMode)

DrawFinBackOnly ==
    LET m == meshes["fin"]
    IN Drawn("fin", "DrawFinBackOnly", <<>>,
             << DrawElements("TRIANGLES", m.vao, 6, 6, polygonMode) >>,
             FALSE, polygonMode)

DrawFinUntexturedSides ==
    LET m == meshes["fin"]
    IN Drawn("fin", "DrawFinUntexturedSides", <<>>,
             << DrawElements("TRIANGLES", m.vao, 24, 12, polygonMode) >>,
             FALSE, polygonMode)

DrawTorusMesh(wireframe) ==
    LET m == meshes["torus"]
        mode == SetWireframeMode(wireframe)
    IN IF m.vao = 0 \/ m.nIndices = 0
       THEN Drawn("torus", "DrawTorusMesh", [wireframe |-> wireframe], <<>>,
                  TRUE, polygonMode)
       ELSE Drawn("torus", "DrawTorusMesh", [wireframe |-> wireframe],
                  << DrawElements("TRIANGLES", m.vao, m.nIndices, 0, mode) >>,
                  FALSE, mode)

DrawHalfTorusMesh(wireframe) ==
    LET m == meshes["torus"]
        mode == SetWireframeMode(wireframe)
    IN IF m.vao = 0 \/ m.nIndices = 0
       THEN Drawn("torus", "DrawHalfTorusMesh", [wireframe |-> wireframe], <<>>,
                  TRUE, polygonMode)
       ELSE Drawn("torus", "DrawHalfTorusMesh", [wireframe |-> wireframe],
                  << DrawElements("TRIANGLES", m.vao, m.nIndices \div 2, 0, mode) >>,
                  FALSE, mode)

\* DrawExtraTorusMesh1 / 2: glDrawArrays over nVertices, no guard and no
\* polygon mode of its own
DrawExtraTorusMesh1 ==
    LET m == meshes["extraTorus1"]
    IN Drawn("extraTorus1", "DrawExtraTorusMesh1", <<>>,
             << DrawArrays("TRIANGLES", m.vao, m.nVertices, 0, polygonMode) >>,
             FALSE, polygonMode)

DrawExtraTorusMesh2 ==
    LET m == meshes["extraTorus2"]
    IN Drawn("extraTorus2", "DrawExtraTorusMesh2", <<>>,
             << DrawArrays("TRIANGLES", m.vao, m.nVertices, 0, polygonMode) >>,
             FALSE, polygonMode)

DrawSpringMesh(wireframe) ==
    LET m == meshes["spring"]
        mode == SetWireframeMode(wireframe)
    IN IF m.vao = 0 \/ m.nVertices = 0
       THEN Drawn("spring", "DrawSpringMesh", [wireframe |-> wireframe], <<>>,
                  TRUE, polygonMode)
       ELSE Drawn("spring", "DrawSpringMesh", [wireframe |-> wireframe],
                  << DrawElements("TRIANGLES", m.vao, m.nIndices, 0, mode) >>,
                  FALSE, mode)

DrawTubeMesh(wireframe) ==
    LET m == meshes["tube"]
        mode == SetWireframeMode(wireframe)
    IN IF m.vao = 0 \/ m.nIndices = 0
       THEN Drawn("tube", "DrawTubeMesh", [wireframe |-> wireframe], <<>>,
                  TRUE, polygonMode)
       ELSE Drawn("tube", "DrawTubeMesh", [wireframe |-> wireframe],
                  << DrawElements("TRIANGLES", m.vao, m.nIndices, 0, mode) >>,
                  FALSE, mode)

DrawCurvedConeMesh ==
    LET m == meshes["curvedCone"]
    IN Drawn("curvedCone", "DrawCurvedConeMesh", <<>>,
             << DrawElements("TRIANGLES", m.vao, m.nIndices, 0, polygonMode) >>,
             FALSE, polygonMode)

(***************************************************************************)
(* Shapes regenerated on every draw.  Load<Shape>Mesh only generates the   *)
(* three GL names; Draw<Shape>Mesh builds the mesh, uploads it into the    *)
(* handle's buffers and draws it.                                          *)
(***************************************************************************)
LoadDynamicMesh(shape, name) ==
    LET vao == Fresh(DOMAIN glVertexArrays)
        vbo == Fresh(DOMAIN glBuffers)
        ebo == Fresh(DOMAIN glBuffers \cup {vbo})
    IN /\ running
       /\ nLoads < MaxLoads
       /\ nLoads' = nLoads + 1
       /\ meshes' = [meshes EXCEPT ![shape] =
                        [@ EXCEPT !.vao = vao, !.vbo = vbo, !.ebo = ebo]]
       /\ glVertexArrays' =
              (vao :> [elementBuffer |-> 0, arrayBuffer |-> 0]) @@ glVertexArrays
       /\ glBuffers' = (vbo :> <<>>) @@ (ebo :> <<>>) @@ glBuffers
       /\ lastOp' = [kind |-> "load", name |-> name, shape |-> shape, args |-> <<>>]
       /\ drawCalls' = <<>>
       /\ errorSignalled' = FALSE
       /\ UNCHANGED <<m_bMemoryLayoutDone, layoutCalls, polygonMode, gen, running>>

LoadTaperedTorusMesh == LoadDynamicMesh("taperedTorus", "LoadTaperedTorusMesh")
LoadSpiralMesh == LoadDynamicMesh("spiral", "LoadSpiralMesh")
LoadSineConeMesh == LoadDynamicMesh("sineCone", "LoadSineConeMesh")
LoadSuperellipsoidMesh == LoadDynamicMesh("superellipsoid", "LoadSuperellipsoidMesh")

\* glBufferData: the data store of the bound buffer is created anew and
\* filled with data; nothing of the store it had before is kept
BufferData_Append(store, data) == store \o data
BufferData(store, data) == data

\* the upload and the draw call at the end of a Draw<Shape>Mesh; mesh is the
\* handle as the generator left it.  Binding name 0 uploads nothing.
UploadAndDraw(shape, name, args, mesh, g) ==
    /\ Issued(shape, name, args,
              << DrawElements("TRIANGLES", mesh.vao, Len(g.indices), 0, polygonMode) >>,
              FALSE, polygonMode)
    /\ meshes' = [meshes EXCEPT ![shape] = mesh]
    /\ glVertexArrays' =
           IF mesh.vao \in DOMAIN glVertexArrays
           THEN [glVertexArrays EXCEPT
                    ![mesh.vao] = [elementBuffer |-> mesh.ebo, arrayBuffer |-> mesh.vbo]]
           ELSE glVertexArrays
    /\ glBuffers' =
           [b \in DOMAIN glBuffers |->
               IF b = mesh.ebo THEN BufferData(glBuffers[b], g.indices)
               ELSE IF b = mesh.vbo THEN BufferData(glBuffers[b], g.verts)
               ELSE glBuffers[b]]
    /\ gen' = [shape |-> shape, args |-> args, geo |-> g]
    /\ UNCHANGED <<m_bMemoryLayoutDone, layoutCalls, nLoads>>

(***************************************************************************)
(* DrawTaperedTorusMesh: (mainSegments + 1) x (tubeSegments + 1) grid over *)
(* the sweep angle.  Segment counts and sweep angle are used as given.     *)
(***************************************************************************)
TaperedTorusVerts(mainRadius, tubeRadiusStart, tubeRadiusEnd, mainSegments, tubeSegments, sweepAngleRadians) ==
    LoopBlocks(mainSegments + 1, LAMBDA i :
        Loop(tubeSegments + 1, LAMBDA j :
            LET theta == <<"sweep", sweepAngleRadians, Frac(i, mainSegments)>>
                sweepT == Frac(i, mainSegments)
                phi == Frac(j, tubeSegments)
                tubeRadius == <<"mix", tubeRadiusStart, tubeRadiusEnd, sweepT>>
            IN Vertex(<<"torus", mainRadius, tubeRadius, theta, phi>>,
                      Normalize(<<"torusNormal", theta, phi>>),
                      << Frac(j, tubeSegments), sweepT >>)))

TaperedTorusIndices(mainSegments, tubeSegments) ==
    LoopBlocks(mainSegments, LAMBDA i :
        LoopBlocks(tubeSegments, LAMBDA j :
            LET curr == i * (tubeSegments + 1) + j
                next == (i + 1) * (tubeSegments + 1) + j
            IN Tri(curr, next, curr + 1) \o Tri(curr + 1, next, next + 1)))

TaperedTorusGeometry(mainRadius, tubeRadiusStart, tubeRadiusEnd, mainSegments, tubeSegments, sweepAngleRadians) ==
    [verts |-> TaperedTorusVerts(mainRadius, tubeRadiusStart, tubeRadiusEnd,
                                 mainSegments, tubeSegments, sweepAngleRadians),
     indices |-> TaperedTorusIndices(mainSegments, tubeSegments),
     mainSegments |-> mainSegments,
     tubeSegments |-> tubeSegments,
     sweepAngleRadians |-> sweepAngleRadians]

DrawTaperedTorusMesh(mainRadius, tubeRadiusStart, tubeRadiusEnd, mainSegments, tubeSegments, sweepAngleRadians) ==
    UploadAndDraw("taperedTorus", "DrawTaperedTorusMesh",
        [mainRadius |-> mainRadius, tubeRadiusStart |-> tubeRadiusStart,
         tubeRadiusEnd |-> tubeRadiusEnd, mainSegments |-> mainSegments,
         tubeSegments |-> tubeSegments, sweepAngleRadians |-> sweepAngleRadians],
        meshes["taperedTorus"],
        TaperedTorusGeometry(mainRadius, tubeRadiusStart, tubeRadiusEnd, mainSegments,
                             tubeSegments, sweepAngleRadians))

(***************************************************************************)
(* DrawSuperellipsoidMesh: (uSegments + 1) x (vSegments + 1) grid; segment *)
(* counts below 3 become 3, non-positive scales and exponents become 0.1.  *)
(***************************************************************************)
\* the replacement 0.1f; scales and exponents are counted in units of it
SuperellipsoidEpsilon == 1

SuperellipsoidVerts(scaleX, scaleY, scaleZ, verticalExponent, horizontalExponent, uSegments, vSegments) ==
    LoopBlocks(uSegments + 1, LAMBDA i :
        Loop(vSegments + 1, LAMBDA j :
            LET u == Frac(i, uSegments)
                v == Frac(j, vSegments)
                e == <<verticalExponent, horizontalExponent>>
            IN Vertex(<<"superellipsoid", <<scaleX, scaleY, scaleZ>>, e, u, v>>,
                      Normalize(<<"superellipsoidNormal", <<scaleX, scaleY, scaleZ>>,
                                  e, u, v>>),
                      << Frac(j, vSegments), Frac(i, uSegments) >>)))

SuperellipsoidIndices(uSegments, vSegments) ==
    LoopBlocks(uSegments, LAMBDA i :
        LoopBlocks(vSegments, LAMBDA j :
            LET idx0 == i * (vSegments + 1) + j
                idx1 == (i + 1) * (vSegments + 1) + j
                idx2 == i * (vSegments + 1) + (j + 1)
                idx3 == (i + 1) * (vSegments + 1) + (j + 1)
            IN Tri(idx0, idx1, idx2) \o Tri(idx2, idx1, idx3)))

SuperellipsoidGeometry(scaleXArg, scaleYArg, scaleZArg, verticalExponentArg, horizontalExponentArg, uSegmentsArg, vSegmentsArg) ==
    LET uSegments == ClampSlices(uSegmentsArg)
        vSegments == ClampSlices(vSegmentsArg)
        scaleX == MaxFloat(SuperellipsoidEpsilon, scaleXArg)
        scaleY == MaxFloat(SuperellipsoidEpsilon, scaleYArg)
        scaleZ == MaxFloat(SuperellipsoidEpsilon, scaleZArg)
        verticalExponent == MaxFloat(SuperellipsoidEpsilon, verticalExponentArg)
        horizontalExponent == MaxFloat(SuperellipsoidEpsilon, horizontalExponentArg)
    IN [verts |-> SuperellipsoidVerts(scaleX, scaleY, scaleZ, verticalExponent,
                                      horizontalExponent, uSegments, vSegments),
        indices |-> SuperellipsoidIndices(uSegments, vSegments),
        uSegments |-> uSegments,
        vSegments |-> vSegments]

DrawSuperellipsoidMesh(scaleX, scaleY, scaleZ, verticalExponent, horizontalExponent, uSegments, vSegments) ==
    LET g == SuperellipsoidGeometry(scaleX, scaleY, scaleZ, verticalExponent,
                                    horizontalExponent, uSegments, vSegments)
    IN UploadAndDraw("superellipsoid", "DrawSuperellipsoidMesh",
           [scaleX |-> scaleX, scaleY |-> scaleY, scaleZ |-> scaleZ,
            verticalExponent |-> verticalExponent,
            horizontalExponent |-> horizontalExponent,
            uSegments |-> uSegments, vSegments |-> vSegments],
           [meshes["superellipsoid"] EXCEPT
               !.numSlices = g.vSegments,
               !.nVertices = (Len(g.verts) * FloatsPerRecord) \div 8,
               !.nIndices = Len(g.indices)],
           g)

(***************************************************************************)
(* DrawSineConeMesh: (heightSegments + 1) x (radialSegments + 1) grid with *)
(* area-weighted accumulated normals.  Segment counts are used as given.   *)
(***************************************************************************)
\* the four accumulations of quad (i, j): <<vertex index, term>>
SineConeQuadTerms(i, j, radialSegments) ==
    LET curr == i * (radialSegments + 1) + j
        next == (i + 1) * (radialSegments + 1) + j
        i0 == curr
        i1 == next
        i2 == curr + 1
        i3 == next + 1
    IN << <<i0, <<"n0 * area0", i, j>> >>,
          <<i1, <<"(n0 + n1) * 0.5 * (area0 + area1)", i, j>> >>,
          <<i2, <<"(n0 + n1) * 0.5 * (area0 + area1)", i, j>> >>,
          <<i3, <<"n1 * area1", i, j>> >> >>

SineConeTerms(radialSegments, heightSegments) ==
    LoopBlocks(heightSegments, LAMBDA i :
        LoopBlocks(radialSegments, LAMBDA j :
            SineConeQuadTerms(i, j, radialSegments)))

\* normals[k] after the accumulation loop: the terms added to it, in order
SineConeAccumulated(k, terms) ==
    LET mine == SelectSeq(terms, LAMBDA t : t[1] = k)
    IN [n \in 1..Len(mine) |-> mine[n][2]]

SineConeVerts(baseRadius, height, flattenFactor, sineAmplitude, sineFrequency, sinePhase, radialSegments, heightSegments) ==
    LET terms == SineConeTerms(radialSegments, heightSegments)
    IN LoopBlocks(heightSegments + 1, LAMBDA i :
           Loop(radialSegments + 1, LAMBDA j :
               LET k == i * (radialSegments + 1) + j
                   t == Frac(i, heightSegments)
                   theta == Frac(j, radialSegments)
               IN Vertex(<<"sineCone", <<baseRadius, height, flattenFactor>>,
                           <<sineAmplitude, sineFrequency, sinePhase>>, t, theta>>,
                         Normalize(<<"sum", SineConeAccumulated(k, terms)>>),
                         << Frac(k % (radialSegments + 1), radialSegments),
                            Frac(CDiv(k, radialSegments + 1), heightSegments) >>)))

SineConeIndices(radialSegments, heightSegments) ==
    LoopBlocks(heightSegments, LAMBDA i :
        LoopBlocks(radialSegments, LAMBDA j :
            LET curr == i * (radialSegments + 1) + j
                next == (i + 1) * (radialSegments + 1) + j
                i0 == curr
                i1 == next
                i2 == curr + 1
                i3 == next + 1
            IN Tri(i0, i1, i2) \o Tri(i2, i1, i3)))

SineConeGeometry(baseRadius, height, flattenFactor, sineAmplitude, sineFrequency, sinePhase, radialSegments, heightSegments) ==
    [verts |-> SineConeVerts(baseRadius, height, flattenFactor, sineAmplitude,
                             sineFrequency, sinePhase, radialSegments, heightSegments),
     indices |-> SineConeIndices(radialSegments, heightSegments),
     radialSegments |-> radialSegments,
     heightSegments |-> heightSegments]

DrawSineConeMesh(baseRadius, height, flattenFactor, sineAmplitude, sineFrequency, sinePhase, radialSegments, heightSegments) ==
    UploadAndDraw("sineCone", "DrawSineConeMesh",
        [baseRadius |-> baseRadius, height |-> height,
         flattenFactor |-> flattenFactor, sineAmplitude |-> sineAmplitude,
         sineFrequency |-> sineFrequency, sinePhase |-> sinePhase,
         radialSegments |-> radialSegments, heightSegments |-> heightSegments],
        meshes["sineCone"],
        SineConeGeometry(baseRadius, height, flattenFactor, sineAmplitude,
                         sineFrequency, sinePhase, radialSegments, heightSegments))

(***************************************************************************)
(* DrawSpiralMesh: a tube along a flat spiral that starts half a turn in,  *)
(* closed at its start by a hemisphere of capRings rings.  numLoops is a   *)
(* rational <<p, q>> (p / q loops); every other count is used as given.    *)
(***************************************************************************)
\* float totalAngle = numLoops * 2.0f * PI
SpiralTotalAngle(numLoops) ==
    F32Mul(F32Mul(F32FromRational(numLoops), F32FromInt(2)), F32Pi)

\* float spiralStep = totalAngle / spiralSegments, spiralSegments not zero
SpiralStep(numLoops, spiralSegments) ==
    F32Div(SpiralTotalAngle(numLoops), F32FromInt(spiralSegments))

\* static_cast<int>(startAngle / spiralStep) with startAngle = PI, evaluated
\* in float; a zero spiralSegments makes spiralStep infinite and the
\* quotient 0
SpiralStartSegment(numLoops, spiralSegments) ==
    IF spiralSegments = 0 THEN 0
    ELSE F32ToInt(F32Div(F32Pi, SpiralStep(numLoops, spiralSegments)))

\* "if (theta > totalAngle) break;" with float theta = i * spiralStep, both
\* rounded to float (never true of the NaN a zero spiralSegments gives for
\* i = 0, the only segment the loop then visits)
ThetaExceeds(i, spiralStep, totalAngle, spiralSegments) ==
    /\ spiralSegments # 0
    /\ F32Greater(F32Mul(F32FromInt(i), spiralStep), totalAngle)

\* "for (int i = ...; i <= spiralSegments; ++i)" from segment i on: the
\* segments whose centre is pushed onto centers before the loop ends
RECURSIVE SpiralLoop(_, _, _, _)
SpiralLoop(i, spiralStep, totalAngle, spiralSegments) ==
    IF i > spiralSegments \/ ThetaExceeds(i, spiralStep, totalAngle, spiralSegments)
    THEN <<>>
    ELSE <<i>> \o SpiralLoop(i + 1, spiralStep, totalAngle, spiralSegments)

\* the segments i whose centre is pushed onto centers, in order
SpiralSamples(numLoops, spiralSegments) ==
    SpiralLoop(SpiralStartSegment(numLoops, spiralSegments),
               IF spiralSegments = 0 THEN <<0, 0>>
               ELSE SpiralStep(numLoops, spiralSegments),
               SpiralTotalAngle(numLoops), spiralSegments)

\* centers[k]: an element of the vector, or whatever lies behind its end
SpiralCenter(samples, k) ==
    IF k < Len(samples) THEN <<"center", samples[k + 1]>> ELSE <<"indeterminate">>

\* tangents[i] of the centreline
SpiralTangent(samples, i) ==
    LET ringCount == Len(samples)
    IN IF i >= ringCount THEN <<"indeterminate">>
       ELSE IF i = 0
            THEN Normalize(<<"-", SpiralCenter(samples, 1), SpiralCenter(samples, 0)>>)
       ELSE IF i = ringCount - 1
            THEN Normalize(<<"-", SpiralCenter(samples, ringCount - 1),
                             SpiralCenter(samples, ringCount - 2)>>)
       ELSE Normalize(<<"-", SpiralCenter(samples, i + 1), SpiralCenter(samples, i - 1)>>)

SpiralRingVerts(shape, samples, tubeSegments) ==
    LET ringCount == Len(samples)
    IN LoopBlocks(ringCount, LAMBDA i :
           Loop(tubeSegments, LAMBDA j :
               LET frame == <<"frame", i, SpiralTangent(samples, 0),
                              SpiralTangent(samples, i)>>
                   offset == <<"offset", shape, frame, Frac(j, tubeSegments)>>
               IN Vertex(<<"+", SpiralCenter(samples, i), offset>>,
                         Normalize(offset),
                         << Frac(j, tubeSegments), Frac(i, ringCount - 1) >>)))

SpiralRingIndices(ringCount, tubeSegments) ==
    LET ringStride == tubeSegments
    IN LoopBlocks(ringCount - 1, LAMBDA i :
           LoopBlocks(tubeSegments, LAMBDA j :
               LET curr == i * ringStride + j
                   next == (i + 1) * ringStride + j
                   currNext == i * ringStride + ((j + 1) % tubeSegments)
                   nextNext == (i + 1) * ringStride + ((j + 1) % tubeSegments)
               IN Tri(curr, next, currNext) \o Tri(currNext, next, nextNext)))

SpiralCapVerts(shape, samples, capSegments) ==
    LoopBlocks(capRings, LAMBDA i0 :
        Loop(capSegments, LAMBDA j :
            LET i == i0 + 1
                theta == Frac(i, 4 * capRings)
                offset == <<"capOffset", shape, SpiralTangent(samples, 0), theta,
                            Frac(j, capSegments)>>
            IN Vertex(<<"-", SpiralCenter(samples, 0), offset>>,
                      Normalize(<<"neg", offset>>),
                      << Frac(j, capSegments), <<"-cos", theta>> >>)))

SpiralCapIndices(baseIndex, capSegments) ==
    LoopBlocks(capRings - 1, LAMBDA i :
        LoopBlocks(capSegments, LAMBDA j :
            LET curr == baseIndex + i * capSegments + j
                next == baseIndex + (i + 1) * capSegments + j
                currNext == baseIndex + i * capSegments + ((j + 1) % capSegments)
                nextNext == baseIndex + (i + 1) * capSegments + ((j + 1) % capSegments)
            IN Tri(curr, next, currNext) \o Tri(currNext, next, nextNext)))

\* ringStartIndices is filled with 0 .. tubeSegments - 1 while ring 0 is
\* generated; beyond its end a read yields an indeterminate value
SpiralRingStart(ringCount, tubeSegments, j, indeterminate) ==
    IF ringCount >= 1 /\ j < tubeSegments THEN j ELSE indeterminate

SpiralStitchIndices(baseIndex, ringCount, capSegments, indeterminate) ==
    LoopBlocks(capSegments, LAMBDA j :
        LET capRing == baseIndex + (capRings - 1) * capSegments + j
            tubeRing == SpiralRingStart(ringCount, capSegments, j, indeterminate)
            capNext == baseIndex + (capRings - 1) * capSegments + ((j + 1) % capSegments)
            tubeNext == SpiralRingStart(ringCount, capSegments, (j + 1) % capSegments,
                                        indeterminate)
        IN Tri(capRing, tubeRing, capNext) \o Tri(capNext, tubeRing, tubeNext))

SpiralGeometry(tubeRadius, flattenFactor, loopSpacing, numLoops, tubeSegments, spiralSegments, indeterminate) ==
    LET samples == SpiralSamples(numLoops, spiralSegments)
        ringCount == Len(samples)
        shape == <<tubeRadius, flattenFactor, loopSpacing, numLoops, spiralSegments>>
        rings == SpiralRingVerts(shape, samples, tubeSegments)
        capSegments == tubeSegments
        baseIndex == (Len(rings) * FloatsPerRecord) \div 8
    IN [verts |-> rings \o SpiralCapVerts(shape, samples, capSegments),
        indices |-> SpiralRingIndices(ringCount, tubeSegments)
                    \o SpiralCapIndices(baseIndex, capSegments)
                    \o SpiralStitchIndices(baseIndex, ringCount, capSegments,
                                           indeterminate),
        ringCount |-> ringCount,
        tubeSegments |-> tubeSegments,
        fault |-> FALSE]

\* values an out-of-range read of ringStartIndices can yield: one that is a
\* vertex of the mesh and one that is not
IndeterminateIndices(ringCount, tubeSegments) ==
    IF ringCount = 0 /\ tubeSegments > 0
    THEN {0, capRings * tubeSegments}
    ELSE {0}

DrawSpiralMesh(tubeRadius, flattenFactor, loopSpacing, numLoops, tubeSegments, spiralSegments) ==
    LET ringCount == Len(SpiralSamples(numLoops, spiralSegments))
        args == [tubeRadius |-> tubeRadius, flattenFactor |-> flattenFactor,
                 loopSpacing |-> loopSpacing, numLoops |-> numLoops,
                 tubeSegments |-> tubeSegments, spiralSegments |-> spiralSegments]
    IN \/ \E indeterminate \in IndeterminateIndices(ringCount, tubeSegments) :
              UploadAndDraw("spiral", "DrawSpiralMesh", args, meshes["spiral"],
                  SpiralGeometry(tubeRadius, flattenFactor, loopSpacing, numLoops,
                                 tubeSegments, spiralSegments, indeterminate))
       \/ \* centers[1] (ringCount = 1) or centers[0], tangents[0] and
          \* ringStartIndices[j] (ringCount = 0) are read out of range: the read
          \* may as well end the process
          /\ running
          /\ ringCount < 2
          /\ running' = FALSE
          /\ lastOp' = [kind |-> "draw", name |-> "DrawSpiralMesh", shape |-> "spiral",
                        args |-> args]
          /\ gen' = [shape |-> "spiral", args |-> args,
                     geo |-> [verts |-> <<>>, indices |-> <<>>, ringCount |-> ringCount,
                              tubeSegments |-> tubeSegments, fault |-> TRUE]]
          /\ UNCHANGED <<meshes, glVertexArrays, glBuffers, m_bMemoryLayoutDone,
                         layoutCalls, polygonMode, drawCalls, errorSignalled, nLoads>>

(***************************************************************************)
(* The deprecated wrappers Draw<Shape>MeshLines: each writes its warning    *)
(* unless its flag is set, sets the flag and calls Forward, the draw        *)
(* operation named in its body.                                             *)
(***************************************************************************)
\* a wrapper that tests and sets the flag of the box wrapper, whichever
\* wrapper is called
DrawMeshLines_BoxFlag(wrapper, Forward) ==
    /\ warned' = [warned EXCEPT !["DrawBoxMeshLines"] = TRUE]
    /\ warnings' = IF warned["DrawBoxMeshLines"] THEN warnings
                   ELSE Append(warnings, wrapper)
    /\ lastWrapper' = wrapper
    /\ Forward

DrawMeshLines(wrapper, Forward) ==
    /\ warned' = [warned EXCEPT ![wrapper] = TRUE]
    /\ warnings' = IF warned[wrapper] THEN warnings ELSE Append(warnings, wrapper)
    /\ lastWrapper' = wrapper
    /\ Forward

\* an operation of the public interface called directly: no wrapper runs
Direct(Operation) ==
    /\ Operation
    /\ lastWrapper' = "none"
    /\ UNCHANGED <<warned, warnings>>

(***************************************************************************)
(* Inputs.                                                                 *)
(***************************************************************************)
\* segment / slice counts handed to a generator, degenerate ones included
GenSegs == -1..MaxSeg
\* float parameters
Scalars == 1..MaxScalar
\* radius parameters, the non-positive 0 included
Radii == 0..MaxScalar
\* arcDegrees of DrawPartialConeMesh
ArcSet == {-90, 0, 180, 360, 450}
\* slice counts of the lifecycle specification
LifeSlices == {2, MaxSeg}
\* numLoops of DrawSpiralMesh: a quarter, a half, one and two loops
LoopCounts == {Frac(1, 4), Frac(1, 2), Frac(1, 1), Frac(2, 1)}
\* sweepAngleRadians of DrawTaperedTorusMesh, in turns of 2 * pi
Sweeps == {Frac(-1, 2), Frac(1, 2), Frac(1, 1), Frac(3, 2)}
\* spiralSegments for which the last sample, theta = 11 * (totalAngle / 11),
\* exceeds totalAngle after rounding
RoundedSegs == {11}
\* thickness of LoadExtraTorusMesh1 / 2: the defaults 0.4 and 0.6, and 2
Thicknesses == {Frac(2, 5), Frac(3, 5), Frac(2, 1)}
\* mainSegments of LoadSpringMesh
SpringSegs == {0, 1, 2}

(***************************************************************************)
(* Spec: the life of one ShapeMeshes instance, Loads and Draws of the      *)
(* sliced solids and the box in any order.                                 *)
(***************************************************************************)
Next ==
    \/ Direct(LoadBoxMesh)
    \/ \E n \in LifeSlices : Direct(LoadConeMesh(1, 1, n))
    \/ \E n \in LifeSlices : Direct(LoadCylinderMesh(1, 1, n))
    \/ \E n \in LifeSlices : Direct(LoadTaperedCylinderMesh(2, 1, 1, n))
    \/ \E w \in BOOLEAN : Direct(DrawBoxMesh(w))
    \/ \E side \in BoxSide : Direct(DrawBoxMeshSide(side, FALSE))
    \/ \E b \in BOOLEAN : Direct(DrawConeMesh(b, FALSE))
    \/ \E t \in BOOLEAN, b \in BOOLEAN, s \in BOOLEAN :
           Direct(DrawCylinderMesh(t, b, s, FALSE))
    \/ \E t \in BOOLEAN, b \in BOOLEAN, s \in BOOLEAN :
           Direct(DrawTaperedCylinderMesh(t, b, s, FALSE))

Spec == Init /\ [][Next]_vars

(***************************************************************************)
(* SpecGen: on a fresh instance, one generator run over the whole input    *)
(* range, and the Draws of the shape it loaded (or of a shape never        *)
(* loaded).                                                                *)
(***************************************************************************)
\* no generator has run and no handle is loaded
NothingLoaded == gen.shape = "none" /\ \A s \in Shapes : meshes[s].vao = 0
\* the instance as constructed: no operation has been called
FreshInstance == NothingLoaded /\ lastOp.kind = "none"
\* no other shape than this one has been generated or loaded
Only(shape) ==
    /\ gen.shape \in {"none", shape}
    /\ \A s \in Shapes \ {shape} : meshes[s].vao = 0
\* a shape regenerated by its Draw: the Draw has not run yet
OnlyOnce(shape) == gen.shape = "none" /\ Only(shape)

NextGen ==
    \/ NothingLoaded /\ Direct(LoadBoxMesh)
    \/ NothingLoaded /\ \E r \in Radii, h \in Scalars, n \in GenSegs :
           Direct(LoadConeMesh(r, h, n))
    \/ NothingLoaded /\ \E r \in Radii, h \in Scalars, n \in GenSegs :
           Direct(LoadCylinderMesh(r, h, n))
    \/ NothingLoaded /\ \E rb \in Scalars, rt \in Scalars, n \in GenSegs :
           Direct(LoadTaperedCylinderMesh(rb, rt, 1, n))
    \/ NothingLoaded /\ \E r \in Scalars, n \in GenSegs, a \in ArcSet :
           Direct(DrawPartialConeMesh(r, 1, n, a, FALSE))
    \/ NothingLoaded /\ \E w \in Scalars, h \in Scalars : Direct(LoadPlaneMesh(w, h))
    \/ NothingLoaded /\ Direct(LoadPrismMesh)
    \/ NothingLoaded /\ Direct(LoadPyramid3Mesh)
    \/ NothingLoaded /\ \E b \in Scalars, h \in Scalars : Direct(LoadPyramid4Mesh(b, h))
    \/ NothingLoaded /\ \E lat \in GenSegs, lon \in GenSegs, r \in Radii :
           Direct(LoadSphereMesh(lat, lon, r))
    \/ NothingLoaded /\ \E lat \in GenSegs, lon \in GenSegs, r \in Scalars :
           Direct(LoadHemisphereMesh(lat, lon, r))
    \/ NothingLoaded /\ \E rm \in {0, 2}, rt \in 0..1, m \in GenSegs, t \in GenSegs :
           Direct(LoadTorusMesh(rm, rt, m, t))
    \/ FreshInstance /\ \E th \in Thicknesses : Direct(LoadExtraTorusMesh1(th))
    \/ FreshInstance /\ \E th \in Thicknesses : Direct(LoadExtraTorusMesh2(th))
    \/ NothingLoaded /\ \E m \in SpringSegs, t \in {2, SpringMinTube + 1} :
           Direct(LoadSpringMesh(2, 1, m, t, 1))
    \/ NothingLoaded /\ \E ri \in Radii, n \in GenSegs : Direct(LoadTubeMesh(3, ri, 1, n))
    \/ NothingLoaded /\ \E b \in Scalars, t \in Scalars : Direct(LoadFinMesh(b, t, 1, 1))
    \/ NothingLoaded /\ \E n \in GenSegs, c \in GenSegs :
           Direct(LoadCurvedConeMesh(n, c, 1, 1, 1))
    \/ NothingLoaded /\ Direct(LoadTaperedTorusMesh)
    \/ NothingLoaded /\ Direct(LoadSpiralMesh)
    \/ NothingLoaded /\ Direct(LoadSineConeMesh)
    \/ NothingLoaded /\ Direct(LoadSuperellipsoidMesh)
    \/ Only("box") /\ \E w \in BOOLEAN : Direct(DrawBoxMesh(w))
    \/ Only("box") /\ \E side \in BoxSide : Direct(DrawBoxMeshSide(side, FALSE))
    \/ Only("cone") /\ \E b \in BOOLEAN : Direct(DrawConeMesh(b, FALSE))
    \/ Only("cylinder") /\ \E t \in BOOLEAN, b \in BOOLEAN, s \in BOOLEAN :
           Direct(DrawCylinderMesh(t, b, s, FALSE))
    \/ Only("taperedCylinder") /\ \E t \in BOOLEAN, b \in BOOLEAN, s \in BOOLEAN :
           Direct(DrawTaperedCylinderMesh(t, b, s, FALSE))
    \/ Only("plane") /\ Direct(DrawPlaneMesh(FALSE))
    \/ Only("prism") /\ Direct(DrawPrismMesh(FALSE))
    \/ Only("pyramid3") /\ Direct(DrawPyramid3Mesh(FALSE))
    \/ Only("pyramid4") /\ Direct(DrawPyramid4Mesh(FALSE))
    \/ Only("sphere") /\ Direct(DrawSphereMesh(FALSE))
    \/ Only("sphere") /\ Direct(DrawHalfSphereMesh(FALSE))
    \/ Only("hemisphere") /\ Direct(DrawHemisphereMesh(FALSE))
    \/ Only("torus") /\ Direct(DrawTorusMesh(FALSE))
    \/ Only("torus") /\ Direct(DrawHalfTorusMesh(FALSE))
    \/ Only("extraTorus1") /\ Direct(DrawExtraTorusMesh1)
    \/ Only("extraTorus2") /\ Direct(DrawExtraTorusMesh2)
    \/ Only("spring") /\ Direct(DrawSpringMesh(FALSE))
    \/ Only("tube") /\ Direct(DrawTubeMesh(FALSE))
    \/ Only("fin") /\ \E w \in BOOLEAN : Direct(DrawFinMesh(w))
    \/ Only("fin") /\ Direct(DrawFinSides)
    \/ Only("fin") /\ Direct(DrawFinFrontOnly)
    \/ Only("fin") /\ Direct(DrawFinBackOnly)
    \/ Only("fin") /\ Direct(DrawFinUntexturedSides)
    \/ Only("curvedCone") /\ Direct(DrawCurvedConeMesh)
    \/ OnlyOnce("taperedTorus") /\ \E m \in GenSegs, t \in GenSegs, a \in Sweeps :
           Direct(DrawTaperedTorusMesh(2, 1, 1, m, t, a))
    \/ OnlyOnce("spiral") /\ \E l \in LoopCounts, t \in GenSegs, s \in GenSegs :
           Direct(DrawSpiralMesh(1, 0, 1, l, t, s))
    \/ FreshInstance /\ \E l \in LoopCounts :
           \E s \in RoundedSegs : Direct(DrawSpiralMesh(1, 0, 1, l, 3, s))
    \/ OnlyOnce("sineCone") /\ \E r \in GenSegs, h \in GenSegs :
           Direct(DrawSineConeMesh(1, 1, 0, 1, 1, 0, r, h))
    \/ OnlyOnce("superellipsoid") /\ \E sx \in 0..1, e \in 0..1, u \in GenSegs, v \in GenSegs :
           Direct(DrawSuperellipsoidMesh(sx, 1, 1, e, 1, u, v))

SpecGen == Init /\ [][NextGen]_vars

\* One of the shapes regenerated on every draw is loaded once and then drawn
\* any number of times, with parameters that change from draw to draw.
DynamicShapes == {"taperedTorus", "spiral", "sineCone", "superellipsoid"}
HandleLoaded(shape) == meshes[shape].vao # 0

NextDyn ==
    \/ NothingLoaded /\ Direct(LoadTaperedTorusMesh)
    \/ NothingLoaded /\ Direct(LoadSpiralMesh)
    \/ NothingLoaded /\ Direct(LoadSineConeMesh)
    \/ NothingLoaded /\ Direct(LoadSuperellipsoidMesh)
    \/ \E m, t \in GenSegs, a \in Sweeps :
           HandleLoaded("taperedTorus") /\ Direct(DrawTaperedTorusMesh(2, 1, 1, m, t, a))
    \/ \E l \in LoopCounts, t \in SpringSegs \cup {3}, s \in {0, MaxSeg} :
           HandleLoaded("spiral") /\ Direct(DrawSpiralMesh(1, 0, 1, l, t, s))
    \/ \E r, h \in GenSegs :
           HandleLoaded("sineCone") /\ Direct(DrawSineConeMesh(1, 1, 0, 1, 1, 0, r, h))
    \/ \E u, v \in GenSegs, sx \in 0..1 :
           HandleLoaded("superellipsoid") /\ Direct(DrawSuperellipsoidMesh(sx, 1, 1, 1, 1, u, v))

SpecDyn == Init /\ [][NextDyn]_vars

\* One shape is loaded, or none, and the deprecated wrappers are called in any
\* order, any number of times; no more than MaxWarned different wrappers are
\* used in one run.  The fin may be loaded next to that shape and drawn in
\* between, with DrawFinMesh(true) and with DrawFinSides, which has no
\* wireframe parameter.
MayCall(wrapper) ==
    warned[wrapper] \/ Cardinality({w \in Wrappers : warned[w]}) < MaxWarned

NextLines ==
    \/ NothingLoaded /\ Direct(LoadBoxMesh)
    \/ NothingLoaded /\ Direct(LoadConeMesh(1, 1, MinSlices))
    \/ NothingLoaded /\ Direct(LoadSphereMesh(2, MinSlices, 1))
    \/ ~HandleLoaded("fin") /\ Direct(LoadFinMesh(1, 1, 1, 1))
    \/ HandleLoaded("fin") /\ Direct(DrawFinMesh(TRUE))
    \/ HandleLoaded("fin") /\ Direct(DrawFinSides)
    \/ MayCall("DrawBoxMeshLines")
           /\ DrawMeshLines("DrawBoxMeshLines", DrawBoxMesh(TRUE))
    \/ MayCall("DrawConeMeshLines")
           /\ DrawMeshLines("DrawConeMeshLines", DrawConeMesh(TRUE, FALSE))
    \/ MayCall("DrawCylinderMeshLines")
           /\ DrawMeshLines("DrawCylinderMeshLines",
                            DrawCylinderMesh(TRUE, TRUE, TRUE, FALSE))
    \/ MayCall("DrawPlaneMeshLines")
           /\ DrawMeshLines("DrawPlaneMeshLines", DrawPlaneMesh(TRUE))
    \/ MayCall("DrawPrismMeshLines")
           /\ DrawMeshLines("DrawPrismMeshLines", DrawPrismMesh(TRUE))
    \/ MayCall("DrawPyramid3MeshLines")
           /\ DrawMeshLines("DrawPyramid3MeshLines", DrawPyramid3Mesh(TRUE))
    \/ MayCall("DrawPyramid4MeshLines")
           /\ DrawMeshLines("DrawPyramid4MeshLines", DrawPyramid4Mesh(TRUE))
    \/ MayCall("DrawSphereMeshLines")
           /\ DrawMeshLines("DrawSphereMeshLines", DrawSphereMesh(TRUE))
    \/ MayCall("DrawHalfSphereMeshLines")
           /\ DrawMeshLines("DrawHalfSphereMeshLines", DrawHemisphereMesh(TRUE))
    \/ MayCall("DrawTaperedCylinderMeshLines")
           /\ DrawMeshLines("DrawTaperedCylinderMeshLines",
                            DrawTaperedCylinderMesh(TRUE, TRUE, TRUE, FALSE))
    \/ MayCall("DrawTorusMeshLines")
           /\ DrawMeshLines("DrawTorusMeshLines", DrawTorusMesh(TRUE))
    \/ MayCall("DrawHalfTorusMeshLines")
           /\ DrawMeshLines("DrawHalfTorusMeshLines", DrawHalfTorusMesh(TRUE))

SpecLines == Init /\ [][NextLines]_vars


(***************************************************************************)
(* Properties.                                                             *)
(***************************************************************************)
\* the vertex buffer and the index buffer a loaded mesh holds on the GL server
\* (the extra torus handles name their vertex buffer in vbos[0], every other
\* handle in vbo)
VertexData(m) ==
    IF m.vbo \in DOMAIN glBuffers THEN glBuffers[m.vbo]
    ELSE IF m.vbos[1] \in DOMAIN glBuffers THEN glBuffers[m.vbos[1]]
    ELSE <<>>
IndexData(m) == IF m.ebo \in DOMAIN glBuffers THEN glBuffers[m.ebo] ELSE <<>>

\* C2: LoadConeMesh called with a slice count below 3 (1, 0, negative) leaves
\* the same vertex buffer, the same index buffer and the same stored numSlices
\* as the call with numSlices = 3 and the same radius and height.
C2_ConeBelowThreeIsThree ==
    (gen.shape = "cone" /\ gen.args.numSlices < 3) =>
        LET m == meshes["cone"]
            three == ConeGeometry(gen.args.radius, gen.args.height, 3)
        IN /\ gen.geo.verts = three.verts
           /\ gen.geo.indices = three.indices
           /\ VertexData(m) = three.verts
           /\ IndexData(m) = three.indices
           /\ m.numSlices = 3
           /\ m.nVertices = Len(three.verts)
           /\ m.nIndices = Len(three.indices)

\* a cone loaded with a non-positive slice count holds the 11 vertices of n = 3
C2_Witness ==
    /\ gen.shape = "cone"
    /\ gen.args.numSlices <= 0
    /\ meshes["cone"].numSlices = 3
    /\ Len(VertexData(meshes["cone"])) = 11

\* C4: a cone of n >= 3 (clamped) slices has 3n + 2 vertices -- the centre, n
\* rim vertices, the apex, 2n side vertices -- and 6n indices -- 3n of the base
\* fan, 3n of the sides; 11 and 18 for n = 3.
C4_ConeCounts ==
    gen.shape = "cone" =>
        LET m == meshes["cone"]
            n == m.numSlices
            verts == VertexData(m)
            rim == {k \in 1..Len(verts) :
                        /\ verts[k].normal = <<0, -1, 0>>
                        /\ verts[k].position # <<0, 0, 0>>}
            side == {k \in 1..Len(verts) :
                        verts[k].normal \notin {<<0, -1, 0>>, <<0, 1, 0>>}}
        IN /\ n >= 3
           /\ n = IF gen.args.numSlices < 3 THEN 3 ELSE gen.args.numSlices
           /\ Len(verts) = 3 * n + 2
           /\ m.nVertices = 3 * n + 2
           /\ Cardinality(rim) = n
           /\ Cardinality(side) = 2 * n
           /\ Len(IndexData(m)) = 6 * n
           /\ m.nIndices = 6 * n
           /\ (n = 3 => Len(verts) = 11 /\ Len(IndexData(m)) = 18)

\* a cone of four slices: 14 vertices, 24 indices
C4_Witness ==
    /\ gen.shape = "cone"
    /\ gen.args.numSlices = 4
    /\ meshes["cone"].nVertices = 14
    /\ meshes["cone"].nIndices = 24

\* the angular columns (vertex index / 2) one triangle of the sector touches
C5_Columns(indices, t) == {indices[3 * t + k] \div 2 : k \in 1..3}

\* C5: for arcDegrees < 360 and any slice count, no triangle of the partial
\* cone holds a vertex of column 0 and a vertex of column numSlices; every
\* triangle lies between two neighbouring columns.
C5_PartialConeOpen ==
    (gen.shape = "partialCone" /\ gen.args.arcDegrees < 360) =>
        LET indices == gen.geo.indices
            last == gen.geo.numSlices
        IN /\ Len(gen.geo.verts) = 2 * (last + 1)
           /\ \A t \in 0..((Len(indices) \div 3) - 1) :
                /\ ~ (0 \in C5_Columns(indices, t) /\ last \in C5_Columns(indices, t))
                /\ \E c \in 0..(last - 1) : C5_Columns(indices, t) = {c, c + 1}

\* a half-turn sector asked with one slice: three slices, six triangles
C5_Witness ==
    /\ gen.shape = "partialCone"
    /\ gen.args.arcDegrees = 180
    /\ gen.args.numSlices = 1
    /\ gen.geo.numSlices = 3
    /\ Len(gen.geo.indices) = 18

\* C6: over any sequence of Loads the attribute-layout binding is executed
\* exactly once: the first InitializeMesh performs it and sets the guard flag,
\* every later Load skips it.
C6_LayoutBoundOnce ==
    /\ nLoads = 0 => (layoutCalls = 0 /\ ~m_bMemoryLayoutDone)
    /\ nLoads >= 1 => (layoutCalls = 1 /\ m_bMemoryLayoutDone)

\* C7: a Draw of a shape that was never loaded signals an error and issues no
\* draw call.
C7_DrawBeforeLoadFailsLoudly ==
    (/\ lastOp.kind = "draw"
     /\ lastOp.shape \in Shapes
     /\ meshes[lastOp.shape].vao = 0) =>
        (errorSignalled /\ drawCalls = <<>>)

\* the part of the solid triangle t of an index buffer belongs to, told from
\* the normals of its three vertices
C8_PartOf(verts, indices, t) ==
    LET normals == {verts[indices[3 * t + k] + 1].normal : k \in 1..3}
    IN IF normals = {<<0, -1, 0>>} THEN "bottom"
       ELSE IF normals = {<<0, 1, 0>>} THEN "top"
       ELSE "sides"

\* the triangles Load emitted for one part
C8_Block(m, part) ==
    {t \in 0..((Len(IndexData(m)) \div 3) - 1) :
        C8_PartOf(VertexData(m), IndexData(m), t) = part}

\* the triangles one draw call renders
C8_Drawn(call) ==
    {t \in 0..((Len(IndexData(meshes[lastOp.shape])) \div 3) - 1) :
        /\ call.first <= 3 * t
        /\ 3 * t + 3 <= call.first + call.count}

\* the parts the flags of the last Draw select, in the order they are drawn
C8_Selected ==
    IF lastOp.name = "DrawConeMesh"
    THEN (IF lastOp.args.bDrawBottom THEN <<"bottom">> ELSE <<>>) \o <<"sides">>
    ELSE (IF lastOp.args.bDrawBottom THEN <<"bottom">> ELSE <<>>)
         \o (IF lastOp.args.bDrawTop THEN <<"top">> ELSE <<>>)
         \o (IF lastOp.args.bDrawSides THEN <<"sides">> ELSE <<>>)

\* C8: on a loaded cone, cylinder or tapered cylinder of n slices every
\* partial-draw flag selects exactly the index block Load emitted for its part:
\* the bottom cap is the first n triangles, the top cap of the two-capped solids
\* the next n, their sides the following 2n, the sides of the cone the n after
\* the bottom cap; the blocks are disjoint and together cover the index buffer.
C8_PartialDrawBlocks ==
    (/\ lastOp.name \in {"DrawConeMesh", "DrawCylinderMesh", "DrawTaperedCylinderMesh"}
     /\ meshes[lastOp.shape].vao # 0) =>
        LET m == meshes[lastOp.shape]
            n == m.numSlices
            cone == lastOp.shape = "cone"
            bottom == C8_Block(m, "bottom")
            top == C8_Block(m, "top")
            sides == C8_Block(m, "sides")
        IN /\ bottom = 0..(n - 1)
           /\ top = IF cone THEN {} ELSE n..(2 * n - 1)
           /\ sides = IF cone THEN n..(2 * n - 1) ELSE (2 * n)..(4 * n - 1)
           /\ 3 * Cardinality(bottom \cup top \cup sides) = m.nIndices
           /\ Len(drawCalls) = Len(C8_Selected)
           /\ \A k \in 1..Len(drawCalls) :
                /\ drawCalls[k].vao = m.vao
                /\ drawCalls[k].prim = "TRIANGLES"
                /\ drawCalls[k].count = 3 * Cardinality(C8_Block(m, C8_Selected[k]))
                /\ C8_Drawn(drawCalls[k]) = C8_Block(m, C8_Selected[k])
           /\ \A j, k \in 1..Len(drawCalls) :
                j # k => C8_Drawn(drawCalls[j]) \cap C8_Drawn(drawCalls[k]) = {}

\* a cylinder of four slices drawn with all three flags on
C8_Witness ==
    /\ lastOp.name = "DrawCylinderMesh"
    /\ lastOp.args.bDrawTop /\ lastOp.args.bDrawBottom /\ lastOp.args.bDrawSides
    /\ meshes["cylinder"].numSlices = 4
    /\ Len(drawCalls) = 3
    /\ drawCalls[3].first = 24
    /\ drawCalls[3].count = 24

\* the outward normal the name of a box face stands for
C9_NamedNormal(side) ==
    CASE side = "front"  -> <<0, 0, 1>>
      [] side = "back"   -> <<0, 0, -1>>
      [] side = "left"   -> <<-1, 0, 0>>
      [] side = "right"  -> <<1, 0, 0>>
      [] side = "top"    -> <<0, 1, 0>>
      [] side = "bottom" -> <<0, -1, 0>>

\* C9: DrawBoxMeshSide(side) on a loaded box draws exactly the two triangles
\* LoadBoxMesh emitted for the face of that name: six indices whose vertices
\* all carry that face's normal.
C9_BoxSideDrawsNamedFace ==
    (lastOp.name = "DrawBoxMeshSide" /\ meshes["box"].vao # 0) =>
        /\ Len(drawCalls) = 1
        /\ drawCalls[1].count = 6
        /\ \A k \in 1..6 :
             LET i == DrawnIndices(drawCalls[1])[k]
             IN /\ i >= 0
                /\ VertexData(meshes["box"])[i + 1].normal
                       = C9_NamedNormal(lastOp.args.side)

\* C1: whatever shape a generator has produced and whatever its parameters,
\* every value of the generated index buffer is a vertex of the generated
\* vertex buffer: 0 <= index < number of vertices.
C1_IndicesBelowVertexCount ==
    gen.shape # "none" =>
        \A k \in DOMAIN gen.geo.indices :
            /\ gen.geo.indices[k] >= 0
            /\ gen.geo.indices[k] < Len(gen.geo.verts)

\* "a segment count below the minimum 3 becomes 3"
C3_Clamped(n) == IF n < 3 THEN 3 ELSE n

\* the mesh of the same call with every segment count below 3 set to 3
C3_Reference(shape, a) ==
    CASE shape = "sphere" ->
           SphereGeometry(C3_Clamped(a.latitudeSegments),
                          C3_Clamped(a.longitudeSegments), a.radius)
      [] shape = "hemisphere" ->
           HemisphereGeometry(C3_Clamped(a.latitudeSegments),
                              C3_Clamped(a.longitudeSegments), a.radius)
      [] shape = "torus" ->
           TorusGeometry(a.mainRadius, a.tubeRadius, C3_Clamped(a.mainSegments),
                         C3_Clamped(a.tubeSegments))
      [] shape = "spring" ->
           SpringGeometry(a.mainRadius, a.tubeRadius, C3_Clamped(a.mainSegments),
                          C3_Clamped(a.tubeSegments), a.springLength)
      [] shape = "curvedCone" ->
           CurvedConeGeometry(C3_Clamped(a.numSlices), C3_Clamped(a.curveSteps),
                              a.radius, a.height, a.bendRadius)
      [] shape = "taperedTorus" ->
           TaperedTorusGeometry(a.mainRadius, a.tubeRadiusStart, a.tubeRadiusEnd,
                                C3_Clamped(a.mainSegments), C3_Clamped(a.tubeSegments),
                                a.sweepAngleRadians)
      [] shape = "spiral" ->
           SpiralGeometry(a.tubeRadius, a.flattenFactor, a.loopSpacing, a.numLoops,
                          C3_Clamped(a.tubeSegments), C3_Clamped(a.spiralSegments), 0)
      [] shape = "sineCone" ->
           SineConeGeometry(a.baseRadius, a.height, a.flattenFactor, a.sineAmplitude,
                            a.sineFrequency, a.sinePhase, C3_Clamped(a.radialSegments),
                            C3_Clamped(a.heightSegments))
      [] shape = "superellipsoid" ->
           SuperellipsoidGeometry(a.scaleX, a.scaleY, a.scaleZ, a.verticalExponent,
                                  a.horizontalExponent, C3_Clamped(a.uSegments),
                                  C3_Clamped(a.vSegments))

C3_Generators == {"sphere", "hemisphere", "torus", "spring", "curvedCone",
                  "taperedTorus", "spiral", "sineCone", "superellipsoid"}

\* C3: for sphere, hemisphere, torus, spring, curved cone, tapered torus,
\* spiral, sine cone and superellipsoid, the mesh generated from any segment
\* counts has as many vertices and indices as, and is equal to, the mesh of the
\* same call with every segment count below 3 replaced by 3.
C3_SegmentCountsClampedToThree ==
    gen.shape \in C3_Generators =>
        LET ref == C3_Reference(gen.shape, gen.args)
        IN /\ Len(gen.geo.verts) = Len(ref.verts)
           /\ Len(gen.geo.indices) = Len(ref.indices)
           /\ gen.geo.indices = ref.indices
           /\ gen.geo.verts = ref.verts

\* a longitude of no turn, and of exactly one full turn
C10_NoTurn(q) == q[1] = 0 /\ q[2] # 0
C10_FullTurn(q) == q[1] = q[2] /\ q[2] # 0

\* C10: after LoadSphereMesh(latitudeSegments, L, radius), in every latitude
\* row the entries at lon = 0 and lon = L exist, are two different entries of
\* the vertex buffer, lie at the same polar angle and radius at longitudes 0
\* and one full turn, and their u coordinates 1 - lon / L differ by exactly 1.
C10_SphereSeamDuplicated ==
    gen.shape = "sphere" =>
        LET L == gen.args.longitudeSegments
            v == gen.geo.verts
        IN \A lat \in 0..gen.args.latitudeSegments :
               LET first == lat * (L + 1) + 1
                   last == lat * (L + 1) + L + 1
               IN /\ first \in DOMAIN v
                  /\ last \in DOMAIN v
                  /\ first # last
                  /\ v[first].position[2] = v[last].position[2]
                  /\ v[first].position[3] = v[last].position[3]
                  /\ C10_NoTurn(v[first].position[4])
                  /\ C10_FullTurn(v[last].position[4])
                  /\ C10_NoTurn(v[first].texCoord[1][2])
                  /\ C10_FullTurn(v[last].texCoord[1][2])

\* the triangles of an index buffer, each as the set of its corners
C11_Triangles(g) ==
    { {g.indices[3 * t + 1], g.indices[3 * t + 2], g.indices[3 * t + 3]} :
        t \in 0..((Len(g.indices) \div 3) - 1) }

\* a ring: n slices, the vertex index of angular sample k, and the length and
\* the component of the position that hold the angle
C11_Ring(n, len, comp, at(_)) ==
    [n |-> n, len |-> len, comp |-> comp, at |-> [k \in 0..n |-> at(k)]]

\* the rings of the wrap-around shapes, from the layout of their vertex buffers
C11_Rings(shape, g) ==
    CASE shape = "cone" ->
           LET n == g.numSlices
               sideStart == n + 2
           IN { C11_Ring(n, 4, 3, LAMBDA k : 1 + k),
                C11_Ring(n, 4, 3, LAMBDA k : IF k < n THEN sideStart + 2 * k
                                             ELSE sideStart + 2 * (n - 1) + 1) }
      [] shape = "cylinder" ->
           LET n == g.numSlices
               sideStart == 2 * (n + 2)
           IN { C11_Ring(n, 4, 3, LAMBDA k : 1 + k),
                C11_Ring(n, 4, 3, LAMBDA k : (n + 2) + 1 + k),
                C11_Ring(n, 4, 3, LAMBDA k : sideStart + 2 * k),
                C11_Ring(n, 4, 3, LAMBDA k : sideStart + 2 * k + 1) }
      [] shape = "sphere" ->
           LET n == g.longitudeSegments
           IN { C11_Ring(n, 4, 4, LAMBDA k : lat * (n + 1) + k) :
                  lat \in 0..g.latitudeSegments }
      [] shape = "torus" ->
           LET m == g.mainSegments
               t == g.tubeSegments
           IN { C11_Ring(t, 5, 5, LAMBDA k : i * (t + 1) + k) : i \in 0..m }
              \cup { C11_Ring(m, 5, 4, LAMBDA k : k * (t + 1) + j) : j \in 0..t }

\* the ring has a vertex for every sample 0..n, its last slice is built on
\* samples n-1 and n, and no triangle joins sample n-1 to sample 0
C11_RingClosedByDuplicate(g, ring) ==
    LET n == ring.n
        at == ring.at
    IN /\ n >= 1
       /\ \A k \in 0..n :
             /\ at[k] < Len(g.verts)
             /\ Len(g.verts[at[k] + 1].position) = ring.len
             /\ g.verts[at[k] + 1].position[ring.comp] = Frac(k, n)
       /\ \E tri \in C11_Triangles(g) : at[n - 1] \in tri /\ at[n] \in tri
       /\ n >= 3 => \A tri \in C11_Triangles(g) : ~(at[n - 1] \in tri /\ at[0] \in tri)

\* C11: in every ring (caps and side walls) of the sphere, the torus, the
\* cylinder and the full cone, the seam is closed by a duplicated vertex:
\* sample n has its own vertex, the last slice's triangles use it, and no
\* triangle goes from sample n-1 back to sample 0.
C11_SeamClosedByDuplicateColumn ==
    gen.shape \in {"cone", "cylinder", "sphere", "torus"} =>
        \A ring \in C11_Rings(gen.shape, gen.geo) :
            C11_RingClosedByDuplicate(gen.geo, ring)

\* glm::clamp(arcDegrees, 0, 360)
C12_NearestDegrees(a) == IF a < 0 THEN 0 ELSE IF a > 360 THEN 360 ELSE a
\* the nearest angle of [0, 2 * pi] to the angle k / n turns (n > 0)
C12_NearestTurns(q) ==
    IF q[1] < 0 THEN Frac(0, 1) ELSE IF q[1] > q[2] THEN Frac(1, 1) ELSE q

\* C12: DrawPartialConeMesh with any arcDegrees generates the mesh of the call
\* with arcDegrees replaced by the nearest value of [0, 360], and
\* DrawTaperedTorusMesh with any sweep angle generates the mesh of the call
\* with the angle replaced by the nearest value of [0, 2 * pi].
C12_SweepAnglesClamped ==
    /\ gen.shape = "partialCone" =>
         LET a == gen.args
             ref == PartialConeGeometry(a.radius, a.height, a.numSlices,
                                        C12_NearestDegrees(a.arcDegrees))
         IN gen.geo.verts = ref.verts /\ gen.geo.indices = ref.indices
    /\ gen.shape = "taperedTorus" =>
         LET a == gen.args
             ref == TaperedTorusGeometry(a.mainRadius, a.tubeRadiusStart,
                                         a.tubeRadiusEnd, a.mainSegments,
                                         a.tubeSegments,
                                         C12_NearestTurns(a.sweepAngleRadians))
         IN gen.geo.verts = ref.verts /\ gen.geo.indices = ref.indices

\* the radius and scale parameters the generated vertices were computed from
C13_Used(shape, g) ==
    LET curved == {k \in DOMAIN g.verts : Len(g.verts[k].position) >= 4}
    IN CASE shape \in {"cone", "cylinder", "tube", "sphere"} ->
              { g.verts[k].position[2] : k \in curved }
         [] shape = "torus" ->
              { g.verts[k].position[2] : k \in curved }
              \cup { g.verts[k].position[3] : k \in curved }
         [] shape = "superellipsoid" ->
              UNION { { g.verts[k].position[2][c] : c \in 1..3 } : k \in curved }

\* C13: in the meshes of the cone, the cylinder, the sphere, the torus, the
\* tube and the superellipsoid no vertex is computed from a radius or an axis
\* scale that is zero or negative (a non-positive argument has been replaced
\* by a small positive value), and the generator has signalled no error.
C13_NoNonPositiveRadius ==
    gen.shape \in {"cone", "cylinder", "tube", "sphere", "torus", "superellipsoid"} =>
        /\ \A r \in C13_Used(gen.shape, gen.geo) : r > 0
        /\ ~errorSignalled

\* a quotient with a non-zero denominator, and one that equals 1
C14_Finite(q) == q[2] # 0
C14_IsOne(q) == q[2] # 0 /\ q[1] = q[2]

\* a term accumulated into a sine-cone normal that is the zero vector: n1 of
\* a quad whose far ring is the tip (both far corners at radius 0 coincide)
C14_TermIsZero(term, heightSegments) ==
    term[1] = "n1 * area1" /\ term[2] + 1 = heightSegments

\* the normal of a vertex is defined and of length 1
C14_UnitNormal(shape, n, g) ==
    CASE shape \in {"sphere", "hemisphere"} ->
           \* (sin(theta) cos(phi), cos(theta), sin(theta) sin(phi))
           n[2] = 1 /\ C14_Finite(n[3]) /\ C14_Finite(n[4])
      [] shape = "curvedCone" ->
           \* normalize(offset), offset of length radius * (1 - t)
           LET offset == n[2]
           IN offset[2] # 0 /\ C14_Finite(offset[3][2]) /\ ~C14_IsOne(offset[3][2])
      [] shape = "sineCone" ->
           \* normalize(sum of the accumulated terms)
           \E k \in DOMAIN n[2][2] : ~C14_TermIsZero(n[2][2][k], g.heightSegments)

\* segment counts of at least 3 and positive sizes
C14_Valid(shape, a) ==
    CASE shape \in {"sphere", "hemisphere"} ->
           a.latitudeSegments >= 3 /\ a.longitudeSegments >= 3 /\ a.radius > 0
      [] shape = "curvedCone" ->
           /\ a.numSlices >= 3 /\ a.curveSteps >= 3
           /\ a.radius > 0 /\ a.height > 0 /\ a.bendRadius > 0
      [] shape = "sineCone" ->
           /\ a.radialSegments >= 3 /\ a.heightSegments >= 3
           /\ a.baseRadius > 0 /\ a.height > 0

\* C14: for valid parameters every vertex generated for the sphere, the
\* hemisphere (poles included), the curved cone (tip ring included) and the
\* sine cone (after the accumulation of face normals) carries a defined normal
\* of length 1: none is the normalisation of a zero-length vector.
C14_NormalsDefinedAndUnit ==
    (gen.shape \in {"sphere", "hemisphere", "curvedCone", "sineCone"}
     /\ C14_Valid(gen.shape, gen.args)) =>
        \A k \in DOMAIN gen.geo.verts :
            C14_UnitNormal(gen.shape, gen.geo.verts[k].normal, gen.geo)

\* the meshes a Draw of a regenerated shape can build from the arguments a
C15_Generated(shape, a) ==
    IF shape = "taperedTorus"
    THEN {TaperedTorusGeometry(a.mainRadius, a.tubeRadiusStart, a.tubeRadiusEnd,
                               a.mainSegments, a.tubeSegments, a.sweepAngleRadians)}
    ELSE IF shape = "sineCone"
    THEN {SineConeGeometry(a.baseRadius, a.height, a.flattenFactor, a.sineAmplitude,
                           a.sineFrequency, a.sinePhase, a.radialSegments,
                           a.heightSegments)}
    ELSE IF shape = "superellipsoid"
    THEN {SuperellipsoidGeometry(a.scaleX, a.scaleY, a.scaleZ, a.verticalExponent,
                                 a.horizontalExponent, a.uSegments, a.vSegments)}
    ELSE {SpiralGeometry(a.tubeRadius, a.flattenFactor, a.loopSpacing, a.numLoops,
                         a.tubeSegments, a.spiralSegments, x) :
             x \in IndeterminateIndices(
                      Len(SpiralSamples(a.numLoops, a.spiralSegments)),
                      a.tubeSegments)}

\* a Draw of the loaded regenerated shape has returned
C15_Drew(shape) ==
    /\ HandleLoaded(shape)
    /\ running
    /\ lastOp.kind = "draw"
    /\ lastOp.shape = shape

\* the handle's buffers hold exactly one of the meshes of the last Draw
C15_BuffersAreLastMesh ==
    \A shape \in DynamicShapes :
        C15_Drew(shape) =>
            \E g \in C15_Generated(shape, lastOp.args) :
                /\ VertexData(meshes[shape]) = g.verts
                /\ IndexData(meshes[shape]) = g.indices
                /\ glVertexArrays[meshes[shape].vao] =
                       [elementBuffer |-> meshes[shape].ebo,
                        arrayBuffer |-> meshes[shape].vbo]

\* a step on a loaded regenerated shape keeps its three names and the name
\* spaces of the GL server
C15_NamesKept ==
    \A shape \in DynamicShapes :
        HandleLoaded(shape) =>
            /\ meshes'[shape].vao = meshes[shape].vao
            /\ meshes'[shape].vbo = meshes[shape].vbo
            /\ meshes'[shape].ebo = meshes[shape].ebo
            /\ DOMAIN glVertexArrays' = DOMAIN glVertexArrays
            /\ DOMAIN glBuffers' = DOMAIN glBuffers

\* C15: after one Load of a shape regenerated on every draw (tapered torus,
\* spiral, sine cone, superellipsoid), every Draw, whatever its parameters and
\* whatever was drawn before, leaves the handle's vao, vbo and ebo names as
\* they are and creates or deletes no GL object, and after each Draw that
\* returned the handle's buffers hold exactly the mesh generated from that
\* call's parameters.
C15_RegeneratedInPlace == [][C15_NamesKept]_vars /\ []C15_BuffersAreLastMesh

\* a Draw has replaced a mesh in the handle's buffers: the buffers held a
\* mesh before the Draw that left the present one
C15_Witness ==
    \E shape \in DynamicShapes :
        /\ C15_Drew(shape)
        /\ Len(IndexData(meshes[shape])) >= 6
        /\ Len(VertexData(meshes[shape])) >= 4

\* C16: the prism, the 3-sided pyramid and the 4-sided pyramid are
\* non-indexed: after their Load the handle counts no index (nIndices = 0), no
\* element buffer was created for it and none is bound to its vertex array.
C16_NonIndexedShapes ==
    \A shape \in {"prism", "pyramid3", "pyramid4"} :
        meshes[shape].vao # 0 =>
            /\ meshes[shape].nIndices = 0
            /\ meshes[shape].ebo = 0
            /\ glVertexArrays[meshes[shape].vao].elementBuffer = 0

\* the draw call the comment above Load<Shape>Mesh gives as the correct one
C17_Documented(shape, m, mode) ==
    IF shape = "plane" THEN DrawElements("TRIANGLES", m.vao, m.nIndices, 0, mode)
    ELSE IF shape = "pyramid3"
    THEN DrawArrays("TRIANGLE_STRIP", m.vao, m.nVertices, 0, mode)
    ELSE DrawArrays("TRIANGLES", m.vao, m.nVertices, 0, mode)

\* C17: the Draw of a loaded plane, prism, 3-sided pyramid or 4-sided pyramid
\* issues exactly the draw call its Load documents as the correct one, with
\* the same primitive topology and the same indexed or non-indexed form: the
\* plane an indexed triangle list over nIndices, the prism and the 4-sided
\* pyramid non-indexed triangle lists over nVertices, the 3-sided pyramid a
\* non-indexed triangle strip.
C17_DrawIsTheDocumentedCall ==
    \A shape \in {"plane", "prism", "pyramid3", "pyramid4"} :
        (meshes[shape].vao # 0 /\ lastOp.kind = "draw" /\ lastOp.shape = shape) =>
            drawCalls = << C17_Documented(shape, meshes[shape], polygonMode) >>

\* the number of floats uploaded into the vertex buffer of handle m
C18_UploadedFloats(m) == Len(VertexData(m)) * FloatsPerRecord

\* C18: after every Load the handle's cached counts describe the uploaded
\* data: the number of uploaded floats is a multiple of 8, nVertices is that
\* number divided by 8 and nIndices is the number of uploaded indices, for
\* every shape, those that do not go through InitializeMesh (the fin, the two
\* extra tori) included.
C18_CountsDescribeUpload ==
    \A shape \in Shapes :
        (meshes[shape].vao # 0 /\ lastOp.kind = "load" /\ lastOp.shape = shape) =>
            /\ C18_UploadedFloats(meshes[shape]) % 8 = 0
            /\ meshes[shape].nVertices = C18_UploadedFloats(meshes[shape]) \div 8
            /\ meshes[shape].nIndices = Len(IndexData(meshes[shape]))

\* names of the operations that generate a mesh: every Load of a static
\* shape and every Draw of a shape rebuilt when it is drawn
C19_Generates(op) ==
    \/ op.kind = "load" /\ op.shape \notin DynamicShapes
    \/ op.kind = "draw" /\ op.shape \in DynamicShapes \cup {"partialCone"}

\* the step invokes the generator that ran last, with the parameters it ran
\* with last, whatever was drawn since
C19_InvokedAgain ==
    /\ gen.shape # "none"
    /\ running
    /\ C19_Generates(lastOp')
    /\ lastOp'.shape = gen.shape
    /\ lastOp'.args = gen.args

\* the handle's buffers after the step are those left by the earlier
\* invocation
C19_SameBuffers ==
    LET before == meshes[gen.shape]
        after == meshes'[gen.shape]
    IN /\ after.vbo \in DOMAIN glBuffers'
       /\ glBuffers'[after.vbo] = VertexData(before)
       /\ IF after.ebo \in DOMAIN glBuffers'
          THEN glBuffers'[after.ebo] = IndexData(before)
          ELSE IndexData(before) = <<>>

\* C19: generation is deterministic and history-independent: an invocation
\* of a generator with the parameters of its previous invocation leaves
\* vertex and index buffers identical to those of the previous invocation,
\* whatever Load and Draw operations were executed on the instance before or
\* in between.
C19_Deterministic == [][C19_InvokedAgain => C19_SameBuffers]_vars

\* the vertices and the indices of face f (0 .. 5) in the box's buffers
C20_FaceVertices(f) == {4 * f + k : k \in 0..3}
C20_FaceIndices(f) == [k \in 1..indicesPerFace |-> IndexData(meshes["box"])[6 * f + k]]

\* C20: LoadBoxMesh always leaves exactly 24 vertices, 4 per face, the 4
\* vertices of a face sharing one face normal, and 36 indices, two triangles
\* per face, each triangle referencing only vertices of its own face.
C20_BoxCounts ==
    meshes["box"].vao # 0 =>
        /\ Len(VertexData(meshes["box"])) = 24
        /\ meshes["box"].nVertices = 24
        /\ Len(IndexData(meshes["box"])) = 36
        /\ meshes["box"].nIndices = 36
        /\ \A f \in 0..5 :
              /\ \A v, w \in C20_FaceVertices(f) :
                    VertexData(meshes["box"])[v + 1].normal
                        = VertexData(meshes["box"])[w + 1].normal
              /\ \A g \in 0..5 :
                    g # f => VertexData(meshes["box"])[4 * g + 1].normal
                                 # VertexData(meshes["box"])[4 * f + 1].normal
              /\ \A k \in 1..indicesPerFace : C20_FaceIndices(f)[k] \in C20_FaceVertices(f)
              /\ \A t \in 0..1 :
                    Cardinality({C20_FaceIndices(f)[3 * t + k] : k \in 1..3}) = 3

\* the box has been loaded a second time, after another Load
C20_Witness ==
    /\ lastOp.name = "LoadBoxMesh"
    /\ nLoads = 2
    /\ meshes["box"].vao > 1
    /\ Len(IndexData(meshes["box"])) = 36

\* the order in which the fan of n triangles that starts at position first of
\* the index sequence, around the vertex center, names its two ring vertices:
\* "forward" for (center, ring[i], ring[(i + 1) mod n]) in every triangle,
\* "backward" for (center, ring[(i + 1) mod n], ring[i]) in every triangle
C21_FanWinding(indices, first, center, n) ==
    LET a(i) == indices[first + 3 * i + 1] - center - 1
        b(i) == indices[first + 3 * i + 2] - center - 1
    IN IF \E i \in 0..(n - 1) : indices[first + 3 * i] # center THEN "none"
       ELSE IF \A i \in 0..(n - 1) : a(i) = i /\ b(i) = (i + 1) % n THEN "forward"
       ELSE IF \A i \in 0..(n - 1) : b(i) = i /\ a(i) = (i + 1) % n THEN "backward"
       ELSE "none"

\* the vertices a cap of the shape holds: its centre and its ring
C21_CapSize(shape, n) == IF shape = "cylinder" THEN n + 2 ELSE n + 1

C21_BottomWinding(shape) ==
    C21_FanWinding(IndexData(meshes[shape]), 1, 0, meshes[shape].numSlices)

C21_TopWinding(shape) ==
    C21_FanWinding(IndexData(meshes[shape]), 3 * meshes[shape].numSlices + 1,
                   C21_CapSize(shape, meshes[shape].numSlices),
                   meshes[shape].numSlices)

\* C21: every cap fan emits, for each of the n slices, the triangle of the
\* centre and two neighbouring ring vertices, the order of the two decided by
\* the facing of the cap alone: in the cylinder and in the tapered cylinder
\* the top fan and the bottom fan have opposite winding, and the bottom caps
\* of cone, cylinder and tapered cylinder all have the winding of the cone's
\* bottom cap.
C21_CapWindingByFacing ==
    \A shape \in {"cone", "cylinder", "taperedCylinder"} :
        meshes[shape].vao # 0 =>
            /\ C21_BottomWinding(shape) \in {"forward", "backward"}
            /\ C21_BottomWinding(shape)
                   = C21_FanWinding(ConeBottomIndices(0, MinSlices), 1, 0, MinSlices)
            /\ shape # "cone" =>
                  /\ C21_TopWinding(shape) \in {"forward", "backward"}
                  /\ C21_TopWinding(shape) # C21_BottomWinding(shape)

\* the generators that lay their vertices out as a rectangular grid
C22_GridShapes ==
    {"sphere", "hemisphere", "torus", "spring", "curvedCone", "taperedTorus",
     "sineCone", "superellipsoid"}

\* rows and columns of cells of the grid the last generator run built
C22_Rows(g) ==
    IF g.shape = "sphere" THEN g.geo.latitudeSegments
    ELSE IF g.shape = "hemisphere" THEN CDiv(g.geo.latitudeSegments, 2)
    ELSE IF g.shape = "spring" THEN g.geo.mainSegments * g.geo.tubeSegments
    ELSE IF g.shape = "curvedCone" THEN g.geo.curveSteps
    ELSE IF g.shape = "sineCone" THEN g.geo.heightSegments
    ELSE IF g.shape = "superellipsoid" THEN g.geo.uSegments
    ELSE g.geo.mainSegments

C22_Cols(g) ==
    IF g.shape \in {"sphere", "hemisphere"} THEN g.geo.longitudeSegments
    ELSE IF g.shape = "curvedCone" THEN g.geo.numSlices
    ELSE IF g.shape = "sineCone" THEN g.geo.radialSegments
    ELSE IF g.shape = "superellipsoid" THEN g.geo.vSegments
    ELSE g.geo.tubeSegments

C22_Rotations(t) == {t, <<t[2], t[3], t[1]>>, <<t[3], t[1], t[2]>>}

\* the two triangles of cell (r, c) of a grid with C columns of cells are the
\* six indices the cell has in the index sequence
C22_CellIsTwoTriangles(indices, r, c, C) ==
    LET k == (r * C + c) * 6
        v(i, j) == i * (C + 1) + j
    IN /\ <<indices[k + 1], indices[k + 2], indices[k + 3]>>
              \in C22_Rotations(<<v(r, c), v(r + 1, c), v(r, c + 1)>>)
       /\ <<indices[k + 4], indices[k + 5], indices[k + 6]>>
              \in C22_Rotations(<<v(r, c + 1), v(r + 1, c), v(r + 1, c + 1)>>)

\* C22: every grid generator (sphere, hemisphere, torus, spring, curved cone,
\* tapered torus, sine cone, superellipsoid) with R x C cells leaves an
\* (R + 1) x (C + 1) vertex grid and 6 * R * C indices, and for every cell
\* (r, c) exactly the two triangles ((r,c), (r+1,c), (r,c+1)) and
\* ((r,c+1), (r+1,c), (r+1,c+1)), each up to cyclic rotation, so that all of
\* them have the same orientation.
C22_GridCells ==
    (gen.shape \in C22_GridShapes /\ meshes[gen.shape].vao # 0) =>
        LET R == C22_Rows(gen)
            C == C22_Cols(gen)
            verts == VertexData(meshes[gen.shape])
            indices == IndexData(meshes[gen.shape])
        IN /\ Len(verts) = Max(0, R + 1) * Max(0, C + 1)
           /\ Len(indices) = 6 * Max(0, R) * Max(0, C)
           /\ \A r \in 0..(R - 1), c \in 0..(C - 1) :
                 C22_CellIsTwoTriangles(indices, r, c, C)

\* a sphere of several rows and columns of cells is loaded
C22_Witness ==
    /\ gen.shape = "sphere"
    /\ meshes["sphere"].vao # 0
    /\ C22_Rows(gen) >= 2
    /\ C22_Cols(gen) >= 3
    /\ Len(IndexData(meshes["sphere"])) >= 36

\* the triangles (numbered from 0 in the index sequence) that contain vertex k
C23_TrianglesAt(indices, k) ==
    {t \in 0..((Len(indices) \div 3) - 1) :
        k \in {indices[3 * t + 1], indices[3 * t + 2], indices[3 * t + 3]}}

\* the face normal of triangle t weighted by its own magnitude: triangle t is
\* the first (n0) or the second (n1) triangle of cell t \div 2
C23_WeightedFaceNormal(t, radialSegments) ==
    << IF t % 2 = 0 THEN "n0 * area0" ELSE "n1 * area1",
       (t \div 2) \div radialSegments,
       (t \div 2) % radialSegments >>

\* the terms summed into the normal of a vertex before it is normalised
C23_Summed(vertex) == vertex.normal[2][2]

\* C23: in DrawSineConeMesh the normal accumulated for each vertex before
\* normalisation is the sum, over exactly the triangles of the index buffer
\* that contain the vertex, of the triangle's face normal weighted by its
\* magnitude: each incident triangle contributes once and no other term is
\* added.
C23_NormalIsSumOverIncidentTriangles ==
    (gen.shape = "sineCone" /\ meshes["sineCone"].vao # 0 /\ running) =>
        LET verts == VertexData(meshes["sineCone"])
            indices == IndexData(meshes["sineCone"])
        IN \A k \in 0..(Len(verts) - 1) :
              LET summed == C23_Summed(verts[k + 1])
                  incident == C23_TrianglesAt(indices, k)
              IN /\ Len(summed) = Cardinality(incident)
                 /\ {summed[n] : n \in 1..Len(summed)}
                        = {C23_WeightedFaceNormal(t, gen.geo.radialSegments) :
                              t \in incident}

\* the vertices the triangles of indices[from + 1 .. from + count] name
C24_VerticesOf(indices, from, count) == {indices[from + k] : k \in 1..count}

\* the four quads of slice i of the tube, each as the six indices at offset
\* from: outer wall, inner wall, bottom cap, top cap
C24_OuterWall(n, i) == 12 * i
C24_InnerWall(n, i) == 12 * i + 6
C24_BottomCap(n, i) == 12 * n + 12 * i
C24_TopCap(n, i) == 12 * n + 12 * i + 6

\* the six indices at offset from are two triangles that cover the quad
\* between the angular samples i and i + 1: four corners, two of them shared
C24_QuadCovered(indices, from, i) ==
    LET T1 == C24_VerticesOf(indices, from, 3)
        T2 == C24_VerticesOf(indices, from + 3, 3)
    IN /\ Cardinality(T1) = 3
       /\ Cardinality(T2) = 3
       /\ Cardinality(T1 \cap T2) = 2
       /\ {v \div 4 : v \in T1 \cup T2} = {i, i + 1}
       /\ \A s \in {i, i + 1} : Cardinality({v \in T1 \cup T2 : v \div 4 = s}) = 2

\* the cap triangles join inner and outer ring vertices that carry the normal
\* of the cap
C24_CapsCarryCapNormal ==
    LET n == meshes["tube"].numSlices
        verts == VertexData(meshes["tube"])
        indices == IndexData(meshes["tube"])
    IN \A i \in 0..(n - 1) :
          /\ \A v \in C24_VerticesOf(indices, C24_BottomCap(n, i), 6) :
                verts[v + 1].normal = <<0, -1, 0>>
          /\ \A v \in C24_VerticesOf(indices, C24_TopCap(n, i), 6) :
                verts[v + 1].normal = <<0, 1, 0>>
          /\ \A from \in {C24_BottomCap(n, i), C24_TopCap(n, i)} :
                {(v % 4) \div 2 : v \in C24_VerticesOf(indices, from, 6)} = {0, 1}

\* every wall and cap quad between adjacent samples is two triangles
C24_QuadsCovered ==
    LET n == meshes["tube"].numSlices
        indices == IndexData(meshes["tube"])
    IN /\ Len(indices) = 24 * n
       /\ \A i \in 0..(n - 1) :
             \A from \in {C24_OuterWall(n, i), C24_InnerWall(n, i),
                          C24_BottomCap(n, i), C24_TopCap(n, i)} :
                C24_QuadCovered(indices, from, i)

\* outer wall vertices carry the outward radial normal of their angular
\* sample, inner wall vertices the inward one
C24_WallsCarryRadialNormals ==
    LET n == meshes["tube"].numSlices
        verts == VertexData(meshes["tube"])
        indices == IndexData(meshes["tube"])
    IN \A i \in 0..(n - 1) :
          /\ \A v \in C24_VerticesOf(indices, C24_OuterWall(n, i), 6) :
                verts[v + 1].normal = Polar(1, Frac(v \div 4, n), 0)
          /\ \A v \in C24_VerticesOf(indices, C24_InnerWall(n, i), 6) :
                verts[v + 1].normal = Polar(-1, Frac(v \div 4, n), 0)

\* C24: LoadTubeMesh generates an outer wall whose vertices carry outward
\* radial normals, an inner wall whose vertices carry inverted (inward radial)
\* normals, and annular caps at both ends whose triangles join inner and outer
\* ring vertices carrying the cap normal; every wall and cap quad between
\* adjacent angular samples is covered by exactly two triangles.
C24_TubeWallsAndCaps ==
    meshes["tube"].vao # 0 =>
        /\ C24_QuadsCovered
        /\ C24_CapsCarryCapNormal
        /\ C24_WallsCarryRadialNormals

\* how often the warning of wrapper w has been written
C25_Emitted(w) == Cardinality({n \in 1..Len(warnings) : warnings[n] = w})

\* a warning has been written for exactly the wrappers whose flag is set,
\* once for each
C25_OneWarningPerFlag ==
    \A w \in Wrappers : C25_Emitted(w) = IF warned[w] THEN 1 ELSE 0

\* a step never clears a flag; a call through wrapper w sets the flag of w and
\* no other, writes the warning of w if and only if the flag of w was not set
\* (no call of w came before), and executes a draw operation; a direct call
\* touches no flag and writes no warning
C25_Step ==
    /\ \A w \in Wrappers : warned[w] => warned'[w]
    /\ lastWrapper' \in Wrappers =>
          /\ warned' = [warned EXCEPT ![lastWrapper'] = TRUE]
          /\ warnings' = IF warned[lastWrapper'] THEN warnings
                         ELSE Append(warnings, lastWrapper')
          /\ lastOp'.kind = "draw"
    /\ lastWrapper' \notin Wrappers =>
          /\ warned' = warned
          /\ warnings' = warnings

\* C25: over any sequence of calls on one instance each deprecated
\* Draw<Shape>MeshLines wrapper writes its warning exactly once, on its first
\* call; the flag of one wrapper is never set or read by another wrapper, a
\* flag once set is never cleared, and every call, first or later, still
\* forwards to a draw operation.
C25_WarnedOnceEach == []C25_OneWarningPerFlag /\ [][C25_Step]_vars

\* a wrapper has been called again after another wrapper was called for the
\* first time
C25_Witness ==
    /\ Len(warnings) = 2
    /\ lastWrapper = warnings[1]
    /\ lastOp.kind = "draw"

\* the replacement a wrapper names in its warning: "Use <name>(true) instead"
C26_Replacement(w) ==
    CASE w = "DrawBoxMeshLines" -> "DrawBoxMesh"
      [] w = "DrawConeMeshLines" -> "DrawConeMesh"
      [] w = "DrawCylinderMeshLines" -> "DrawCylinderMesh"
      [] w = "DrawPlaneMeshLines" -> "DrawPlaneMesh"
      [] w = "DrawPrismMeshLines" -> "DrawPrismMesh"
      [] w = "DrawPyramid3MeshLines" -> "DrawPyramid3Mesh"
      [] w = "DrawPyramid4MeshLines" -> "DrawPyramid4Mesh"
      [] w = "DrawSphereMeshLines" -> "DrawSphereMesh"
      [] w = "DrawHalfSphereMeshLines" -> "DrawHalfSphereMesh"
      [] w = "DrawTaperedCylinderMeshLines" -> "DrawTaperedCylinderMesh"
      [] w = "DrawTorusMeshLines" -> "DrawTorusMesh"
      [] w = "DrawHalfTorusMeshLines" -> "DrawHalfTorusMesh"

\* the part flags of the forwarded call are at their default, true
C26_PartsAtDefault(args) ==
    \A f \in DOMAIN args \ {"wireframe"} : args[f] = TRUE

\* the call forwarded by wrapper w is its replacement with wireframe = true
C26_ForwardsAsWireframe(w) ==
    /\ lastOp.kind = "draw"
    /\ lastOp.name = C26_Replacement(w)
    /\ lastOp.args.wireframe = TRUE
    /\ C26_PartsAtDefault(lastOp.args)
    /\ \A n \in 1..Len(drawCalls) : drawCalls[n].polygon = "LINE"

\* C26: every deprecated Draw<Shape>MeshLines wrapper is equivalent to the
\* replacement named in its own warning: it draws the same shape as
\* Draw<Shape>Mesh with wireframe = true and every part flag at its default,
\* so that the forwarded draw is issued in line mode; this includes the cone,
\* cylinder and tapered-cylinder wrappers and the half-sphere wrapper.
C26_WrapperIsWireframeDraw ==
    lastWrapper \in Wrappers => C26_ForwardsAsWireframe(lastWrapper)

\* the call is one the claim speaks of: numLoops > 0, spiralSegments >= 1,
\* tubeSegments >= 1
C27_SpiralInRange ==
    /\ lastOp.kind = "draw" /\ lastOp.name = "DrawSpiralMesh"
    /\ lastOp.args.numLoops[1] > 0 /\ lastOp.args.numLoops[2] > 0
    /\ lastOp.args.spiralSegments >= 1
    /\ lastOp.args.tubeSegments >= 1

\* C27: DrawSpiralMesh never reads its centreline arrays out of range: for
\* numLoops > 0, spiralSegments >= 1 and tubeSegments >= 1 the sampled
\* centreline holds at least 2 points before centers[1], centers[0] and
\* tangents[0] are read, and the divisor ringCount - 1 is not zero.
C27_CentrelineHasTwoPoints ==
    C27_SpiralInRange =>
        /\ gen.geo.ringCount >= 2
        /\ gen.geo.ringCount - 1 # 0
        /\ ~gen.geo.fault

\* the partial draws: box side, fin front / back / untextured sides, half
\* sphere and half torus
C28_PartialDraws ==
    {"DrawBoxMeshSide", "DrawFinFrontOnly", "DrawFinBackOnly",
     "DrawFinUntexturedSides", "DrawHalfSphereMesh", "DrawHalfTorusMesh"}

\* the last operation was a partial draw on a loaded shape
C28_PartialDrawOnLoaded ==
    /\ lastOp.kind = "draw"
    /\ lastOp.name \in C28_PartialDraws
    /\ meshes[lastOp.shape].vao # 0

\* a call that addresses whole triangles inside the index buffer of mesh m
C28_WholeTrianglesInside(call, m) ==
    /\ call.indexed /\ call.prim = "TRIANGLES"
    /\ call.first % 3 = 0
    /\ call.count % 3 = 0
    /\ call.first + call.count <= m.nIndices
    /\ call.first + call.count <= Len(IndexData(m))
    /\ \A k \in 1..call.count : DrawnIndices(call)[k] # -1

\* C28: every partial draw on a loaded shape (box side, fin front / back /
\* untextured sides, half sphere, half torus) addresses only whole triangles
\* inside the uploaded index buffer: index offset and index count are
\* multiples of 3 and offset + count <= nIndices, for every parameterisation
\* the Load accepts.
C28_PartialDrawsStayInside ==
    C28_PartialDrawOnLoaded =>
        \A n \in 1..Len(drawCalls) :
            C28_WholeTrianglesInside(drawCalls[n], meshes[lastOp.shape])

\* a box side drawn from the last face of the buffer
C28_Witness ==
    /\ C28_PartialDrawOnLoaded
    /\ lastOp.name = "DrawBoxMeshSide"
    /\ Len(drawCalls) = 1
    /\ drawCalls[1].first + drawCalls[1].count = meshes["box"].nIndices

\* the Draw operations without a wireframe parameter
C29_DrawsWithoutWireframe ==
    {"DrawCurvedConeMesh", "DrawFinSides", "DrawFinFrontOnly", "DrawFinBackOnly",
     "DrawFinUntexturedSides", "DrawExtraTorusMesh1", "DrawExtraTorusMesh2",
     "DrawTaperedTorusMesh", "DrawSpiralMesh",
     "DrawSineConeMesh", "DrawSuperellipsoidMesh"}

\* C29: the polygon mode used by a draw depends only on that call's own
\* arguments, never on earlier calls: a Draw operation without a wireframe
\* parameter renders in fill mode, also when the draw before it was issued
\* with wireframe = true.
C29_NoWireframeParameterDrawsFilled ==
    (running /\ lastOp.kind = "draw" /\ lastOp.name \in C29_DrawsWithoutWireframe) =>
        \A n \in 1..Len(drawCalls) : drawCalls[n].polygon = "FILL"

\* the shape handles whose vao is the vertex array named name
C30_VaoOwners(name) == {s \in Shapes : meshes[s].vao = name}

\* the buffer fields of the shape handles that hold the buffer named name
C30_BufferOwners(name) ==
    {<<s, "vbo">> : s \in {t \in Shapes : meshes[t].vbo = name}}
        \cup {<<s, "vbos">> : s \in {t \in Shapes : meshes[t].vbos[1] = name}}
        \cup {<<s, "ebo">> : s \in {t \in Shapes : meshes[t].ebo = name}}

\* C30: after any sequence of Load and Draw operations, repeated Loads of the
\* same shape and repeated DrawPartialConeMesh calls included, every live GPU
\* object (VAO, VBO, EBO) is referenced by exactly one shape handle: there is
\* never more than one set of objects per shape slot and no object is
\* unreachable without having been deleted.
C30_EveryLiveObjectOwnedOnce ==
    /\ \A name \in DOMAIN glVertexArrays : Cardinality(C30_VaoOwners(name)) = 1
    /\ \A name \in DOMAIN glBuffers : Cardinality(C30_BufferOwners(name)) = 1
=============================================================================
